---- MODULE Spec2Model ----
(***************************************************************************)
(* migretti: the migration engine of src/src/migretti/core.py and the      *)
(* advisory lock of src/src/migretti/db.py, as a state machine.            *)
(*                                                                         *)
(* The database is the committed ledger (_migrations, _migrations_log) and *)
(* the committed schema effects of the scripts.  Every engine process owns *)
(* one psycopg connection opened with autocommit=False: its first statement*)
(* after an idle state opens a transaction, conn.transaction() inside an   *)
(* open transaction is a SAVEPOINT (released, not committed, on exit), and *)
(* the writes of an open transaction are private until conn.commit().      *)
(* Reads are READ COMMITTED: the committed rows plus the reader's own      *)
(* writes.  pg_advisory_lock is a session lock: commit does not release it.*)
(*                                                                         *)
(* A script's up SQL, when it has one, is MaxStmts statements, statement j  *)
(* creating the schema effect <<id, j>>; its down SQL, when it has one, is *)
(* MaxStmts statements, statement j dropping <<id, j>>.  A script may      *)
(* carry one statement that always fails (SELECT 1/0 in the tests).        *)
(* parse_migration_sql is modelled on texts of at most MaxLines lines.     *)
(*                                                                         *)
(* cmd_squash of src/src/migretti/squash.py and atomic_write of            *)
(* src/src/migretti/io_utils.py work on files: the script files, the files *)
(* of migrations/.squash_backup and the files atomic_write creates.  A     *)
(* file is its text, a number; every call of the file system is one step.  *)
(***************************************************************************)
EXTENDS Integers, Sequences, FiniteSets, TLC

\* ---------------------------------------------------------------- bounds
MaxStmts == 2
MaxOps == 2
MaxEdits == 1
MaxLines == 3

Procs == {1, 2}
Ids == {1, 2}
NoLimit == -1

\* Paths at which atomic_write creates a file: new scripts of the directory.
NewIds == {3, 4}
Files == Ids \cup NewIds

VARIABLES
    corpus,      \* id -> the parsed script: no_transaction, failing statements
    present,     \* ids that have a file migrations/<id>_<slug>.sql
    content,     \* id -> the text of the file (a version number)
    mig,         \* committed _migrations: id -> row (status "absent": no row)
    log,         \* committed _migrations_log, in insertion order
    schema,      \* committed schema effects: <<id, statement>>
    clock,       \* the database's NOW()
    lockHolder,  \* session holding pg_advisory_lock(lock_id), 0 when free
    pc,          \* process -> position in the call
    op,          \* process -> the call in progress: kind, limit / steps, dry_run
    inTx,        \* process -> the connection's transaction status is INTRANS
    autocommit,  \* process -> conn.autocommit
    txAt,        \* process -> NOW() of the open transaction
    wMig,        \* process -> uncommitted _migrations writes
    wLog,        \* process -> uncommitted _migrations_log inserts
    wAdd,        \* process -> uncommitted schema effects created
    wDel,        \* process -> uncommitted schema effects dropped
    todo,        \* process -> scripts the loop still has to process
    stmt,        \* process -> next statement of the no-transaction script
    err,         \* process -> exception propagating out of the call
    pre,         \* process -> committed state when the call took the lock
    done,        \* process -> scripts the call has logged as applied / rolled back
    vret,        \* process -> return value of verify_checksums
    nops,        \* apply / rollback calls started so far
    nedits,      \* edits made to the scripts directory so far
    last,        \* the call that returned last, when it was a successful apply()
    text,        \* the lines of a script file handed to parse_migration_sql
    parsed,      \* what parse_migration_sql made of text
    lost,        \* <<id, status>>: uncommitted row writes a lost session discarded
    hooks,       \* process -> the hooks the call has run, with their outcome
    ret,         \* process -> a return statement is leaving the with block
    sq,          \* the cmd_squash call: position, dry_run, pending, new file
    backup_dir,  \* migrations/.squash_backup exists
    backup,      \* file -> text of its copy in migrations/.squash_backup
    dest,        \* path -> text of the file an atomic_write created there
    aw,          \* process -> its atomic_write call: position, path, temp file
    seeds,       \* seed file -> the statement of its SQL that fails, if any
    uses         \* id -> the script whose schema object its up SQL uses, 0 if none

vars == <<corpus, present, content, mig, log, schema, clock, lockHolder, pc, op,
          inTx, autocommit, txAt, wMig, wLog, wAdd, wDel, todo, stmt, err, pre,
          done, vret, nops, nedits, last, text, parsed, lost, hooks, ret, sq, backup_dir,
          backup, dest, aw, seeds, uses>>

dbVars == <<mig, log, schema>>
writeVars == <<wMig, wLog, wAdd, wDel>>
connVars == <<inTx, autocommit, txAt, wMig, wLog, wAdd, wDel>>
squashVars == <<sq, backup_dir, backup, dest, aw>>
fileVars == <<corpus, present, content, nedits, text, parsed, squashVars, seeds, uses>>
callVars == <<op, todo, stmt, err, pre, done, vret, nops>>

\* ------------------------------------------------------------- helpers
Absent == [status |-> "absent", at |-> 0, checksum |-> 0]
Untouched == [status |-> "untouched", at |-> 0, checksum |-> 0]
NoWrites == [m \in Ids |-> Untouched]
NoOp == [kind |-> "none", n |-> 0, dry |-> FALSE]
NoPre == [mig |-> [m \in Ids |-> Absent], loglen |-> 0, schema |-> {}]
NoLast == [ok |-> FALSE, n |-> 0, ndone |-> 0, nedits |-> 0, pre |-> NoPre]

\* Texts of files: no file at the path, a file opened for writing and still
\* empty, the text a file had before any command ran.
NoFile == 0
Truncated == -1
OldText == 9
NoSquash == [pc |-> "idle", dry |-> FALSE, pending |-> <<>>, i |-> 0, new |-> 0,
             orig |-> [f \in Files |-> NoFile]]
NoWrite == [pc |-> "idle", path |-> 0, exclusive |-> FALSE, content |-> NoFile, tmp |-> NoFile]

\* Files seeds/*.sql, named so that they sort in this order, and what the
\* SQL of a file does: no such file, every statement succeeds, or
\* statement j fails.
SeedIds == {5, 6, 7}
NoSeedFile == -1
SeedTexts == {NoSeedFile} \cup (0..MaxStmts)
NoSeeds == [s \in SeedIds |-> NoSeedFile]

\* No script's SQL uses an object of another script.
NoUses == [m \in Ids |-> 0]

SetMin(S) == CHOOSE x \in S : \A y \in S : x <= y

RECURSIVE SortedIds(_)
SortedIds(S) == IF S = {} THEN <<>> ELSE <<SetMin(S)>> \o SortedIds(S \ {SetMin(S)})

RECURSIVE SeqFilter(_, _)
SeqFilter(s, S) ==
    IF s = <<>> THEN <<>>
    ELSE (IF Head(s) \in S THEN <<Head(s)>> ELSE <<>>) \o SeqFilter(Tail(s), S)

SeqToSet(s) == {s[i] : i \in 1..Len(s)}

\* Python's s[:k]: a negative k counts from the end.
Slice(s, k) ==
    IF k >= 0 THEN SubSeq(s, 1, IF k < Len(s) THEN k ELSE Len(s))
    ELSE SubSeq(s, 1, IF Len(s) + k > 0 THEN Len(s) + k ELSE 0)

\* hashlib.sha256(content).hexdigest(): distinct texts, distinct digests.
calculate_checksum(c) == (c * 37) % 101

\* glob of migrations/*.sql as (id, name, path), sorted by id.
get_migration_files == SortedIds(present)

Effects(m) == {<<m, j>> : j \in 1..MaxStmts}

\* if up_sql.strip(): cur.execute(up_sql): an empty up section executes nothing.
UpEffects(m) == IF corpus[m].upLen = 0 THEN {} ELSE Effects(m)

\* The schema as the connection of process p sees it: what is committed,
\* with what its open transaction has dropped and created.
Visible(p) == (schema \ wDel[p]) \cup wAdd[p]

\* cur.execute(up_sql) on the connection of process p: the statement that
\* fails, 0 if none.  The first statement fails when it uses an object of
\* another script that the connection does not see.
UpFailsAt(p, m) ==
    IF uses[m] # 0 /\ <<uses[m], 1>> \notin Visible(p) THEN 1 ELSE corpus[m].upFail

\* What process p reads: the committed rows overlaid with its own writes.
View(p) == [m \in Ids |-> IF wMig[p][m].status = "untouched" THEN mig[m] ELSE wMig[p][m]]

\* A write to row m waits while another session has an uncommitted write on it.
Blocked(p, m) == \E q \in Procs \ {p} : wMig[q][m].status # "untouched"

AppliedIds(t) == {m \in Ids : t[m].status = "applied"}
FailedIds(t) == {m \in Ids : t[m].status = "failed"}

\* The row of S that comes first in ORDER BY applied_at DESC, id DESC.
Newest(S, t) ==
    CHOOSE m \in S : \A k \in S :
        t[k].at < t[m].at \/ (t[k].at = t[m].at /\ k <= m)

RECURSIVE NewestFirst(_, _)
NewestFirst(S, t) ==
    IF S = {} THEN <<>>
    ELSE <<Newest(S, t)>> \o NewestFirst(S \ {Newest(S, t)}, t)

\* SELECT .. FROM _migrations WHERE status = 'applied'
\* ORDER BY applied_at DESC, id DESC
AppliedDetails(t) == NewestFirst(AppliedIds(t), t)

\* ------------------------------------------------- parse_migration_sql
\* A line of a script file: one of the three directives, a line of SQL, or
\* a line of white space.
LineKinds == {"up", "down", "no-transaction", "sql", "blank"}

Texts == UNION {[1..n -> LineKinds] : n \in 0..MaxLines}

NoParse == [called |-> FALSE, raised |-> FALSE, up_sql |-> <<>>, down_sql |-> <<>>,
            no_transaction |-> FALSE]

\* for line in lines: a directive switches the section or sets the flag,
\* any other line goes to the current section, or nowhere before the first
\* section directive.
RECURSIVE ParseLines(_, _, _)
ParseLines(lines, current_section, acc) ==
    IF lines = <<>> THEN acc
    ELSE LET line == Head(lines) IN
         IF line = "up" THEN ParseLines(Tail(lines), "up", acc)
         ELSE IF line = "down" THEN ParseLines(Tail(lines), "down", acc)
         ELSE IF line = "no-transaction"
         THEN ParseLines(Tail(lines), current_section, [acc EXCEPT !.no_transaction = TRUE])
         ELSE IF current_section = "up"
         THEN ParseLines(Tail(lines), current_section, [acc EXCEPT !.up_sql = Append(@, line)])
         ELSE IF current_section = "down"
         THEN ParseLines(Tail(lines), current_section, [acc EXCEPT !.down_sql = Append(@, line)])
         ELSE ParseLines(Tail(lines), current_section, acc)

\* return "\n".join(up_sql), "\n".join(down_sql), no_transaction: the
\* function has no raise statement.
parse_migration_sql(lines) ==
    ParseLines(lines, "none", [NoParse EXCEPT !.called = TRUE])

\* sql.strip(): what is left of the joined lines without the white space.
Strip(sql) == SeqFilter(sql, {"sql"})

\* ---------------------------------------------------------------- Init
\* A script whose up SQL fails is never applied by the engine, so its down
\* SQL is never read: such scripts are listed once, with a complete down.
\* A script whose up section is empty is listed once, without a down.
Scripts ==
    {s \in [noTx : BOOLEAN, upLen : {0, MaxStmts}, upFail : 0..MaxStmts,
            downLen : {0, MaxStmts}, downFail : 0..MaxStmts] :
        /\ s.upFail <= s.upLen
        /\ s.downFail <= s.downLen
        /\ s.upFail # 0 => (s.downLen = MaxStmts /\ s.downFail = 0)
        /\ s.upLen = 0 => s.downLen = 0}

Init ==
    /\ corpus \in [Ids -> Scripts]
    /\ present = Ids
    /\ content = [m \in Ids |-> 1]
    /\ mig = [m \in Ids |-> Absent]
    /\ log = <<>>
    /\ schema = {}
    /\ clock = 1
    /\ lockHolder = 0
    /\ pc = [p \in Procs |-> "idle"]
    /\ op = [p \in Procs |-> NoOp]
    /\ inTx = [p \in Procs |-> FALSE]
    /\ autocommit = [p \in Procs |-> FALSE]
    /\ txAt = [p \in Procs |-> 0]
    /\ wMig = [p \in Procs |-> NoWrites]
    /\ wLog = [p \in Procs |-> <<>>]
    /\ wAdd = [p \in Procs |-> {}]
    /\ wDel = [p \in Procs |-> {}]
    /\ todo = [p \in Procs |-> <<>>]
    /\ stmt = [p \in Procs |-> 0]
    /\ err = [p \in Procs |-> "none"]
    /\ pre = [p \in Procs |-> NoPre]
    /\ done = [p \in Procs |-> <<>>]
    /\ vret = [p \in Procs |-> TRUE]
    /\ nops = 0
    /\ nedits = 0
    /\ last = NoLast
    /\ text = <<>>
    /\ parsed = NoParse
    /\ lost = {}
    /\ hooks = [p \in Procs |-> <<>>]
    /\ ret = [p \in Procs |-> FALSE]
    /\ sq = NoSquash
    /\ backup_dir = FALSE
    /\ backup = [f \in Files |-> NoFile]
    /\ dest = [n \in NewIds |-> NoFile]
    /\ aw = [p \in Procs |-> NoWrite]
    /\ seeds = NoSeeds
    /\ uses = NoUses

\* ------------------------------------------------ the call and the lock
Limits == {NoLimit, 1}
Steps == {1, 2}

\* execute_hook("pre_apply"), .., execute_hook("post_rollback")
HookName(stage, kind) ==
    IF stage = "pre"
    THEN (IF kind = "apply" THEN "pre_apply" ELSE "pre_rollback")
    ELSE (IF kind = "apply" THEN "post_apply" ELSE "post_rollback")

\* subprocess.run(command, shell=True, check=True): the hook ran, and its
\* exit status was zero or not.
Hook(stage, kind, ok) == [name |-> HookName(stage, kind), ok |-> ok]

\* Entry of apply_migrations / rollback_migrations: the pre hook,
\* get_connection (autocommit=False) and get_lock_id.
StartCall(p, kind, n, dry) ==
    /\ pc[p] = "idle"
    /\ nops < MaxOps
    /\ op' = [op EXCEPT ![p] = [kind |-> kind, n |-> n, dry |-> dry]]
    /\ pc' = [pc EXCEPT ![p] = "lock"]
    /\ nops' = nops + 1
    /\ hooks' = [hooks EXCEPT ![p] = <<Hook("pre", kind, TRUE)>>]
    /\ UNCHANGED <<fileVars, last, lost, ret, dbVars, clock, lockHolder, connVars, todo, stmt, err, pre,
                   done, vret>>

apply_migrations(p) == \E limit \in Limits, dry \in BOOLEAN : StartCall(p, "apply", limit, dry)

rollback_migrations(p) == \E steps \in Steps, dry \in BOOLEAN : StartCall(p, "rollback", steps, dry)

\* The pre hook exits non-zero: execute_hook raises RuntimeError before
\* get_connection, and the call is over.
execute_hook_pre_fails(p) ==
    /\ pc[p] = "idle"
    /\ nops < MaxOps
    /\ \E kind \in {"apply", "rollback"}, dry \in BOOLEAN :
          /\ op' = [op EXCEPT ![p] = [kind |-> kind, n |-> 1, dry |-> dry]]
          /\ hooks' = [hooks EXCEPT ![p] = <<Hook("pre", kind, FALSE)>>]
    /\ err' = [err EXCEPT ![p] = "hook"]
    /\ pc' = [pc EXCEPT ![p] = "raised"]
    /\ nops' = nops + 1
    /\ UNCHANGED <<fileVars, last, lost, ret, dbVars, clock, lockHolder, connVars, todo, stmt,
                   pre, done, vret>>

\* The RuntimeError of the pre hook propagates to the caller.
execute_hook_pre_raised(p) ==
    /\ pc[p] = "raised"
    /\ pc' = [pc EXCEPT ![p] = "idle"]
    /\ op' = [op EXCEPT ![p] = NoOp]
    /\ err' = [err EXCEPT ![p] = "none"]
    /\ hooks' = [hooks EXCEPT ![p] = <<>>]
    /\ last' = NoLast
    /\ UNCHANGED <<fileVars, lost, ret, dbVars, clock, lockHolder, connVars, todo, stmt, pre,
                   done, vret, nops>>

\* Faulty variant: the lock call returns at once, whoever holds the lock.
LockFree_never_waits == TRUE

\* pg_advisory_lock(lock_id) returns only when no other session holds the lock.
LockFree == lockHolder = 0

\* with advisory_lock(conn): SELECT pg_advisory_lock; conn.commit(); then
\* ensure_schema(conn), which commits and leaves the connection idle.
advisory_lock_acquire(p) ==
    /\ pc[p] = "lock"
    /\ LockFree
    /\ lockHolder' = p
    /\ pc' = [pc EXCEPT ![p] = IF op[p].kind = "apply" THEN "check" ELSE "details"]
    /\ pre' = [pre EXCEPT ![p] = [mig |-> mig, loglen |-> Len(log), schema |-> schema]]
    /\ UNCHANGED <<fileVars, last, lost, hooks, ret, dbVars, clock, connVars, op, todo, stmt, err, done, vret,
                   nops>>

\* Faulty variant: the unlock is not in a finally block, so an exception
\* leaves advisory_lock without releasing the lock.
Raise_skips_unlock(p, e) ==
    /\ err' = [err EXCEPT ![p] = e]
    /\ pc' = [pc EXCEPT ![p] = "commit"]

\* An exception leaves the with block: the call goes to advisory_lock's finally.
Raise(p, e) ==
    /\ err' = [err EXCEPT ![p] = e]
    /\ pc' = [pc EXCEPT ![p] = "unlock"]

\* The first statement on the idle connection opens a transaction (BEGIN).
Begin(p) ==
    /\ inTx' = [inTx EXCEPT ![p] = TRUE]
    /\ txAt' = [txAt EXCEPT ![p] = clock]
    /\ clock' = clock + 1

\* Faulty variant: the failed set is read and apply() goes on all the same.
check_failed_migrations_goes_on(p) ==
    /\ pc[p] = "check"
    /\ Begin(p)
    /\ pc' = [pc EXCEPT ![p] = "read"]
    /\ UNCHANGED err
    /\ UNCHANGED <<fileVars, last, lost, hooks, ret, dbVars, lockHolder, autocommit, writeVars, op, todo, stmt,
                   pre, done, vret, nops>>

\* failed = check_failed_migrations(conn); if failed: raise RuntimeError
check_failed_migrations(p) ==
    /\ pc[p] = "check"
    /\ Begin(p)
    /\ IF FailedIds(View(p)) # {}
       THEN Raise(p, "dirty")
       ELSE /\ pc' = [pc EXCEPT ![p] = "read"]
            /\ UNCHANGED err
    /\ UNCHANGED <<fileVars, last, lost, hooks, ret, dbVars, lockHolder, autocommit, writeVars, op, todo, stmt,
                   pre, done, vret, nops>>

\* pending = [m for m in all_migrations if m[0] not in applied_ids]
Pending(p) == SeqFilter(get_migration_files, Ids \ AppliedIds(View(p)))

\* if limit: pending = pending[:limit]
Limited(s, limit) == IF limit # NoLimit /\ limit # 0 THEN Slice(s, limit) ELSE s

\* applied_ids = get_applied_migrations(conn); all_migrations = ..; return
\* when nothing is pending.
get_applied_migrations(p) ==
    /\ pc[p] = "read"
    /\ IF Pending(p) = <<>>
       THEN /\ pc' = [pc EXCEPT ![p] = "unlock"]
            /\ ret' = [ret EXCEPT ![p] = TRUE]
            /\ UNCHANGED todo
       ELSE /\ todo' = [todo EXCEPT ![p] = Limited(Pending(p), op[p].n)]
            /\ pc' = [pc EXCEPT ![p] = "loop"]
            /\ UNCHANGED ret
    /\ UNCHANGED <<fileVars, last, lost, hooks, dbVars, clock, lockHolder, connVars, op, stmt, err, pre,
                   done, vret, nops>>

\* applied = get_applied_migrations_details(conn); return when empty;
\* to_rollback = applied[:steps]
get_applied_migrations_details(p) ==
    /\ pc[p] = "details"
    /\ Begin(p)
    /\ IF AppliedDetails(View(p)) = <<>>
       THEN /\ pc' = [pc EXCEPT ![p] = "unlock"]
            /\ ret' = [ret EXCEPT ![p] = TRUE]
            /\ UNCHANGED todo
       ELSE /\ todo' = [todo EXCEPT ![p] = Slice(AppliedDetails(View(p)), op[p].n)]
            /\ pc' = [pc EXCEPT ![p] = "loop"]
            /\ UNCHANGED ret
    /\ UNCHANGED <<fileVars, last, lost, hooks, dbVars, lockHolder, autocommit, writeVars, op, stmt, err,
                   pre, done, vret, nops>>

\* ------------------------------------------------------- ledger writes
\* INSERT INTO _migrations (id, name, checksum): status defaults to
\* 'applied' and applied_at to NOW(), the start of the transaction.
AppliedRow(m, at) ==
    [status |-> "applied", at |-> at, checksum |-> calculate_checksum(content[m])]

\* Faulty variant: the error handler re-raises without recording the failure.
UpsertFailed_not_recorded(row, m, at) == row

\* INSERT .. VALUES (.., 'failed') ON CONFLICT (id) DO UPDATE SET
\* status = 'failed', applied_at = NOW()
UpsertFailed(row, m, at) ==
    IF row.status = "absent"
    THEN [status |-> "failed", at |-> at, checksum |-> calculate_checksum(content[m])]
    ELSE [row EXCEPT !.status = "failed", !.at = at]

\* INSERT INTO _migrations_log (migration_id, name, action, performed_by, checksum)
LogRow(m, action) ==
    [mid |-> m, action |-> action, checksum |-> calculate_checksum(content[m])]

\* with conn.transaction(): on an idle connection BEGIN .. COMMIT, so the
\* writes are committed when the block is left; inside an open transaction
\* SAVEPOINT .. RELEASE, so they stay in that transaction.
TxAt(p) == IF inTx[p] THEN txAt[p] ELSE clock

TxWrite(p, m, row, action, add, del) ==
    /\ IF inTx[p]
       THEN /\ wMig' = [wMig EXCEPT ![p][m] = row]
            /\ wLog' = [wLog EXCEPT ![p] = Append(@, LogRow(m, action))]
            /\ wAdd' = [wAdd EXCEPT ![p] = @ \cup add]
            /\ wDel' = [wDel EXCEPT ![p] = @ \cup del]
            /\ UNCHANGED dbVars
       ELSE /\ mig' = [mig EXCEPT ![m] = row]
            /\ log' = Append(log, LogRow(m, action))
            /\ schema' = (schema \ del) \cup add
            /\ UNCHANGED writeVars
    /\ todo' = [todo EXCEPT ![p] = Tail(todo[p])]
    /\ done' = [done EXCEPT ![p] = Append(@, m)]
    /\ UNCHANGED <<err, pc>>

\* Faulty variant: the script runs outside a transaction block, so the statements
\* before the failing one stay.
TxFail_keeps_earlier(p, m, e) ==
    /\ Raise(p, e)
    /\ schema' = schema \cup {<<m, j>> : j \in 1..(UpFailsAt(p, m) - 1)}
    /\ UNCHANGED <<mig, log, writeVars, todo, done>>

\* An exception inside conn.transaction(): ROLLBACK (TO SAVEPOINT) undoes
\* the whole block, then the exception propagates.
TxFail(p, m, e) ==
    /\ Raise(p, e)
    /\ UNCHANGED <<dbVars, writeVars, todo, done>>

\* The script advances to the next iteration of the for loop.
NextScript(p) ==
    /\ todo' = [todo EXCEPT ![p] = Tail(todo[p])]
    /\ UNCHANGED <<err, pc>>

\* if transaction_status != IDLE: conn.rollback(); conn.autocommit = True
BeginNoTransaction(p, nstmts) ==
    /\ inTx' = [inTx EXCEPT ![p] = FALSE]
    /\ wMig' = [wMig EXCEPT ![p] = NoWrites]
    /\ wLog' = [wLog EXCEPT ![p] = <<>>]
    /\ wAdd' = [wAdd EXCEPT ![p] = {}]
    /\ wDel' = [wDel EXCEPT ![p] = {}]
    /\ autocommit' = [autocommit EXCEPT ![p] = TRUE]
    /\ stmt' = [stmt EXCEPT ![p] = 1]
    /\ pc' = [pc EXCEPT ![p] = IF nstmts = 0 THEN "row" ELSE "stmts"]
    /\ UNCHANGED <<fileVars, last, lost, hooks, ret, dbVars, clock, lockHolder, txAt, op, todo, err, pre, done,
                   vret, nops>>

\* The statement loop moves on, or is over.
NextStmt(p, j, n) ==
    IF j = n
    THEN /\ pc' = [pc EXCEPT ![p] = "row"]
         /\ UNCHANGED stmt
    ELSE /\ stmt' = [stmt EXCEPT ![p] = j + 1]
         /\ UNCHANGED pc

\* ------------------------------------------------- apply_migrations loop
\* Faulty variant: the dry run leaves conn.transaction() without raising
\* psycopg.Rollback, so the savepoint is released with the script's effects.
apply_dry_run_no_rollback(p) ==
    /\ pc[p] = "loop" /\ op[p].kind = "apply" /\ op[p].dry
    /\ todo[p] # <<>>
    /\ LET m == Head(todo[p]) IN
       IF ~corpus[m].noTx /\ UpFailsAt(p, m) # 0
       THEN TxFail(p, m, "sql")
       ELSE /\ NextScript(p)
            /\ wAdd' = [wAdd EXCEPT ![p] = IF corpus[m].noTx THEN @ ELSE @ \cup UpEffects(m)]
            /\ UNCHANGED <<dbVars, wMig, wLog, wDel, done>>
    /\ UNCHANGED <<fileVars, last, lost, hooks, ret, clock, lockHolder, inTx, autocommit, txAt, op, stmt, pre,
                   vret, nops>>

\* dry_run: a transactional script runs inside conn.transaction() and is
\* rolled back by psycopg.Rollback; a no-transaction script is only logged.
apply_dry_run(p) ==
    /\ pc[p] = "loop" /\ op[p].kind = "apply" /\ op[p].dry
    /\ todo[p] # <<>>
    /\ LET m == Head(todo[p]) IN
       IF ~corpus[m].noTx /\ UpFailsAt(p, m) # 0
       THEN TxFail(p, m, "sql")
       ELSE /\ NextScript(p)
            /\ UNCHANGED <<dbVars, writeVars, done>>
    /\ UNCHANGED <<fileVars, last, lost, hooks, ret, clock, lockHolder, inTx, autocommit, txAt, op, stmt, pre,
                   vret, nops>>

\* with conn.transaction(): cur.execute(up_sql); INSERT INTO _migrations;
\* INSERT INTO _migrations_log.  The plain INSERT waits for an uncommitted
\* row with the same id and fails on an existing one.
apply_transactional(p) ==
    /\ pc[p] = "loop" /\ op[p].kind = "apply" /\ ~op[p].dry
    /\ todo[p] # <<>>
    /\ ~corpus[Head(todo[p])].noTx
    /\ LET m == Head(todo[p]) IN
       /\ clock' = IF inTx[p] THEN clock ELSE clock + 1
       /\ IF UpFailsAt(p, m) # 0
          THEN TxFail(p, m, "sql")
          ELSE /\ ~Blocked(p, m)
               /\ IF View(p)[m].status # "absent"
                  THEN TxFail(p, m, "unique")
                  ELSE TxWrite(p, m, AppliedRow(m, TxAt(p)), "UP", UpEffects(m), {})
    /\ UNCHANGED <<fileVars, last, lost, hooks, ret, lockHolder, inTx, autocommit, txAt, op, stmt, pre, vret,
                   nops>>

apply_no_transaction(p) ==
    /\ pc[p] = "loop" /\ op[p].kind = "apply" /\ ~op[p].dry
    /\ todo[p] # <<>>
    /\ corpus[Head(todo[p])].noTx
    /\ BeginNoTransaction(p, corpus[Head(todo[p])].upLen)

\* for stmt in sqlparse.split(up_sql): cur.execute(stmt) under autocommit;
\* on an error the handler upserts the 'failed' row and re-raises.
apply_no_transaction_stmt(p) ==
    /\ pc[p] = "stmts" /\ op[p].kind = "apply"
    /\ LET m == Head(todo[p])
           j == stmt[p]
       IN
       IF j = UpFailsAt(p, m)
       THEN /\ ~Blocked(p, m)
            /\ mig' = [mig EXCEPT ![m] = UpsertFailed(mig[m], m, clock)]
            /\ clock' = clock + 1
            /\ Raise(p, "sql")
            /\ UNCHANGED <<schema, stmt>>
       ELSE /\ schema' = schema \cup {<<m, j>>}
            /\ NextStmt(p, j, MaxStmts)
            /\ UNCHANGED <<mig, clock, err>>
    /\ UNCHANGED <<fileVars, last, lost, hooks, ret, log, lockHolder, connVars, op, todo, pre, done, vret, nops>>

\* INSERT .. ON CONFLICT (id) DO UPDATE SET status = 'applied',
\* checksum = EXCLUDED.checksum, applied_at = NOW()
apply_no_transaction_row(p) ==
    /\ pc[p] = "row" /\ op[p].kind = "apply"
    /\ ~Blocked(p, Head(todo[p]))
    /\ mig' = [mig EXCEPT ![Head(todo[p])] = AppliedRow(Head(todo[p]), clock)]
    /\ clock' = clock + 1
    /\ pc' = [pc EXCEPT ![p] = "log"]
    /\ UNCHANGED <<fileVars, last, lost, hooks, ret, log, schema, lockHolder, connVars, callVars>>

\* Faulty variant: the rollback erases the script's rows from the audit log,
\* as it erases the script's _migrations row, before it logs the DOWN.
NoTransactionLog_erases_on_down(p, action) ==
    /\ log' = IF action = "DOWN"
              THEN Append(SelectSeq(log, LAMBDA r : r.mid # Head(todo[p])),
                          LogRow(Head(todo[p]), action))
              ELSE Append(log, LogRow(Head(todo[p]), action))
    /\ autocommit' = [autocommit EXCEPT ![p] = FALSE]
    /\ todo' = [todo EXCEPT ![p] = Tail(todo[p])]
    /\ done' = [done EXCEPT ![p] = Append(@, Head(todo[p]))]
    /\ pc' = [pc EXCEPT ![p] = "loop"]
    /\ UNCHANGED <<fileVars, last, lost, hooks, ret, mig, schema, clock, lockHolder, inTx, txAt, writeVars, op,
                   stmt, err, pre, vret, nops>>

\* The log INSERT that ends a no-transaction script; conn.autocommit = False
NoTransactionLog(p, action) ==
    /\ log' = Append(log, LogRow(Head(todo[p]), action))
    /\ autocommit' = [autocommit EXCEPT ![p] = FALSE]
    /\ todo' = [todo EXCEPT ![p] = Tail(todo[p])]
    /\ done' = [done EXCEPT ![p] = Append(@, Head(todo[p]))]
    /\ pc' = [pc EXCEPT ![p] = "loop"]
    /\ UNCHANGED <<fileVars, last, lost, hooks, ret, mig, schema, clock, lockHolder, inTx, txAt, writeVars, op,
                   stmt, err, pre, vret, nops>>

apply_no_transaction_log(p) ==
    /\ pc[p] = "log" /\ op[p].kind = "apply"
    /\ NoTransactionLog(p, "UP")

\* ---------------------------------------------- rollback_migrations loop
\* filepath = id_to_path.get(mig_id); if not filepath: raise RuntimeError
rollback_missing_file(p) ==
    /\ pc[p] = "loop" /\ op[p].kind = "rollback"
    /\ todo[p] # <<>>
    /\ Head(todo[p]) \notin present
    /\ Raise(p, "missing")
    /\ UNCHANGED <<fileVars, last, lost, hooks, ret, dbVars, clock, lockHolder, connVars, op, todo, stmt, pre,
                   done, vret, nops>>

\* The down SQL fails when it has a failing statement.
DownFails(m) == corpus[m].downLen # 0 /\ corpus[m].downFail # 0

\* The schema effects a complete run of the down SQL drops.
DownEffects(m) == IF corpus[m].downLen = 0 THEN {} ELSE Effects(m)

rollback_dry_run(p) ==
    /\ pc[p] = "loop" /\ op[p].kind = "rollback" /\ op[p].dry
    /\ todo[p] # <<>>
    /\ Head(todo[p]) \in present
    /\ LET m == Head(todo[p]) IN
       IF ~corpus[m].noTx /\ DownFails(m)
       THEN TxFail(p, m, "sql")
       ELSE /\ NextScript(p)
            /\ UNCHANGED <<dbVars, writeVars, done>>
    /\ UNCHANGED <<fileVars, last, lost, hooks, ret, clock, lockHolder, inTx, autocommit, txAt, op, stmt, pre,
                   vret, nops>>

\* with conn.transaction(): if down_sql.strip(): cur.execute(down_sql);
\* DELETE FROM _migrations WHERE id = ..; INSERT INTO _migrations_log.
\* The DELETE waits for an uncommitted write of the row.
rollback_transactional(p) ==
    /\ pc[p] = "loop" /\ op[p].kind = "rollback" /\ ~op[p].dry
    /\ todo[p] # <<>>
    /\ Head(todo[p]) \in present
    /\ ~corpus[Head(todo[p])].noTx
    /\ LET m == Head(todo[p]) IN
       /\ clock' = IF inTx[p] THEN clock ELSE clock + 1
       /\ IF DownFails(m)
          THEN TxFail(p, m, "sql")
          ELSE /\ ~Blocked(p, m)
               /\ TxWrite(p, m, Absent, "DOWN", {}, DownEffects(m))
    /\ UNCHANGED <<fileVars, last, lost, hooks, ret, lockHolder, inTx, autocommit, txAt, op, stmt, pre, vret,
                   nops>>

rollback_no_transaction(p) ==
    /\ pc[p] = "loop" /\ op[p].kind = "rollback" /\ ~op[p].dry
    /\ todo[p] # <<>>
    /\ Head(todo[p]) \in present
    /\ corpus[Head(todo[p])].noTx
    /\ BeginNoTransaction(p, corpus[Head(todo[p])].downLen)

\* Faulty variant: the error of a statement is logged and the loop goes on
\* with the next statement.
rollback_no_transaction_stmt_goes_on(p) ==
    /\ pc[p] = "stmts" /\ op[p].kind = "rollback"
    /\ LET m == Head(todo[p])
           j == stmt[p]
       IN
       /\ schema' = IF j = corpus[m].downFail THEN schema ELSE schema \ {<<m, j>>}
       /\ NextStmt(p, j, corpus[m].downLen)
       /\ UNCHANGED err
    /\ UNCHANGED <<fileVars, last, lost, hooks, ret, mig, log, clock, lockHolder, connVars, op, todo, pre, done,
                   vret, nops>>

\* Faulty variant: the error handler deletes the script's row before it
\* re-raises.
rollback_no_transaction_stmt_deletes_row(p) ==
    /\ pc[p] = "stmts" /\ op[p].kind = "rollback"
    /\ LET m == Head(todo[p])
           j == stmt[p]
       IN
       IF j = corpus[m].downFail
       THEN /\ Raise(p, "sql")
            /\ mig' = [mig EXCEPT ![m] = Absent]
            /\ UNCHANGED <<schema, stmt>>
       ELSE /\ schema' = schema \ {<<m, j>>}
            /\ NextStmt(p, j, corpus[m].downLen)
            /\ UNCHANGED <<err, mig>>
    /\ UNCHANGED <<fileVars, last, lost, hooks, ret, log, clock, lockHolder, connVars, op, todo, pre, done,
                   vret, nops>>

\* for stmt in sqlparse.split(down_sql): cur.execute(stmt) under autocommit;
\* an error propagates as it is.
rollback_no_transaction_stmt(p) ==
    /\ pc[p] = "stmts" /\ op[p].kind = "rollback"
    /\ LET m == Head(todo[p])
           j == stmt[p]
       IN
       IF j = corpus[m].downFail
       THEN /\ Raise(p, "sql")
            /\ UNCHANGED <<schema, stmt>>
       ELSE /\ schema' = schema \ {<<m, j>>}
            /\ NextStmt(p, j, corpus[m].downLen)
            /\ UNCHANGED err
    /\ UNCHANGED <<fileVars, last, lost, hooks, ret, mig, log, clock, lockHolder, connVars, op, todo, pre, done,
                   vret, nops>>

\* DELETE FROM _migrations WHERE id = %s
rollback_no_transaction_row(p) ==
    /\ pc[p] = "row" /\ op[p].kind = "rollback"
    /\ ~Blocked(p, Head(todo[p]))
    /\ mig' = [mig EXCEPT ![Head(todo[p])] = Absent]
    /\ pc' = [pc EXCEPT ![p] = "log"]
    /\ UNCHANGED <<fileVars, last, lost, hooks, ret, log, schema, clock, lockHolder, connVars, callVars>>

rollback_no_transaction_log(p) ==
    /\ pc[p] = "log" /\ op[p].kind = "rollback"
    /\ NoTransactionLog(p, "DOWN")

\* --------------------------------------------------- leaving the call
\* The for loop is exhausted: the with block of advisory_lock is left.
loop_done(p) ==
    /\ pc[p] = "loop"
    /\ todo[p] = <<>>
    /\ pc' = [pc EXCEPT ![p] = "unlock"]
    /\ UNCHANGED <<fileVars, last, lost, hooks, ret, dbVars, clock, lockHolder, connVars, callVars>>

\* finally: SELECT pg_advisory_unlock(lock_id): a session lock is released
\* at once, whatever transaction the statement runs in.
advisory_lock_release(p) ==
    /\ pc[p] = "unlock"
    /\ lockHolder' = 0
    /\ pc' = [pc EXCEPT ![p] = "commit"]
    /\ UNCHANGED <<fileVars, last, lost, hooks, ret, dbVars, clock, connVars, callVars>>

\* execute_hook("post_apply") / execute_hook("post_rollback"), the statement
\* after the with block: it is reached when the block ended without an
\* exception and without a return, and it touches nothing but the hook's
\* own process. Its value is the hooks the call has run once it is over.
execute_hook_post(p, ok) ==
    IF err[p] = "none" /\ ~ret[p]
    THEN [hooks EXCEPT ![p] = Append(@, Hook("post", op[p].kind, ok))]
    ELSE hooks

\* conn.commit(): the open transaction's writes are committed.
conn_commit(p) ==
    /\ mig' = [m \in Ids |-> IF wMig[p][m].status = "untouched" THEN mig[m]
                               ELSE wMig[p][m]]
    /\ log' = log \o wLog[p]
    /\ schema' = (schema \ wDel[p]) \cup wAdd[p]
    /\ inTx' = [inTx EXCEPT ![p] = FALSE]
    /\ wMig' = [wMig EXCEPT ![p] = NoWrites]
    /\ wLog' = [wLog EXCEPT ![p] = <<>>]
    /\ wAdd' = [wAdd EXCEPT ![p] = {}]
    /\ wDel' = [wDel EXCEPT ![p] = {}]

\* finally: conn.commit(), the last statement of advisory_lock; the with
\* block is left, and the post hook runs if the block ended normally.
advisory_lock_commit(p) ==
    /\ pc[p] = "commit"
    /\ conn_commit(p)
    /\ hooks' = execute_hook_post(p, TRUE)
    /\ pc' = [pc EXCEPT ![p] = "closing"]
    /\ UNCHANGED <<fileVars, last, lost, ret, clock, lockHolder, autocommit, txAt, callVars>>

\* The same, with a post hook that exits non-zero: execute_hook raises
\* RuntimeError.
execute_hook_post_fails(p) ==
    /\ pc[p] = "commit"
    /\ err[p] = "none" /\ ~ret[p]
    /\ conn_commit(p)
    /\ hooks' = execute_hook_post(p, FALSE)
    /\ err' = [err EXCEPT ![p] = "hook"]
    /\ pc' = [pc EXCEPT ![p] = "closing"]
    /\ UNCHANGED <<fileVars, last, lost, ret, clock, lockHolder, autocommit, txAt, op, todo,
                   stmt, pre, done, vret, nops>>

\* finally: conn.close(); the call returns or raises err.
conn_close(p) ==
    /\ pc[p] \in {"closing", "verified"}
    /\ pc' = [pc EXCEPT ![p] = "idle"]
    /\ op' = [op EXCEPT ![p] = NoOp]
    /\ todo' = [todo EXCEPT ![p] = <<>>]
    /\ stmt' = [stmt EXCEPT ![p] = 0]
    /\ err' = [err EXCEPT ![p] = "none"]
    /\ pre' = [pre EXCEPT ![p] = NoPre]
    /\ done' = [done EXCEPT ![p] = <<>>]
    /\ vret' = [vret EXCEPT ![p] = TRUE]
    /\ autocommit' = [autocommit EXCEPT ![p] = FALSE]
    /\ txAt' = [txAt EXCEPT ![p] = 0]
    /\ last' = IF pc[p] = "closing" /\ op[p].kind = "apply" /\ ~op[p].dry
                  /\ err[p] = "none"
               THEN [ok |-> TRUE, n |-> op[p].n, ndone |-> Len(done[p]),
                     nedits |-> nedits, pre |-> pre[p]]
               ELSE NoLast
    /\ hooks' = [hooks EXCEPT ![p] = <<>>]
    /\ ret' = [ret EXCEPT ![p] = FALSE]
    /\ UNCHANGED <<fileVars, lost, dbVars, clock, lockHolder, inTx, writeVars, nops>>

\* ----------------------------------------------------- a session is lost
\* Faulty variant: the scripts run on a connection in autocommit mode, so
\* what their SQL did is committed at once and only the ledger writes of
\* the open transaction are discarded.
session_lost_keeps_effects(p) ==
    /\ lockHolder = p
    /\ lockHolder' = 0
    /\ schema' = (schema \ wDel[p]) \cup wAdd[p]
    /\ lost' = lost \cup {<<m, wMig[p][m].status>> : m \in {k \in Ids : wMig[p][k].status # "untouched"}}
    /\ inTx' = [inTx EXCEPT ![p] = FALSE]
    /\ wMig' = [wMig EXCEPT ![p] = NoWrites]
    /\ wLog' = [wLog EXCEPT ![p] = <<>>]
    /\ wAdd' = [wAdd EXCEPT ![p] = {}]
    /\ wDel' = [wDel EXCEPT ![p] = {}]
    /\ pc' = [pc EXCEPT ![p] = "idle"]
    /\ op' = [op EXCEPT ![p] = NoOp]
    /\ todo' = [todo EXCEPT ![p] = <<>>]
    /\ stmt' = [stmt EXCEPT ![p] = 0]
    /\ err' = [err EXCEPT ![p] = "none"]
    /\ pre' = [pre EXCEPT ![p] = NoPre]
    /\ done' = [done EXCEPT ![p] = <<>>]
    /\ autocommit' = [autocommit EXCEPT ![p] = FALSE]
    /\ txAt' = [txAt EXCEPT ![p] = 0]
    /\ last' = NoLast
    /\ hooks' = [hooks EXCEPT ![p] = <<>>]
    /\ ret' = [ret EXCEPT ![p] = FALSE]
    /\ UNCHANGED <<fileVars, mig, log, clock, vret, nops>>

\* The process dies, or its connection drops, while it holds the advisory
\* lock.  The connection was opened with autocommit=False and the lock is a
\* session lock: the server rolls the open transaction back and releases
\* the lock.  What autocommit statements did before stays.
session_lost(p) ==
    /\ lockHolder = p
    /\ lockHolder' = 0
    /\ lost' = lost \cup {<<m, wMig[p][m].status>> : m \in {k \in Ids : wMig[p][k].status # "untouched"}}
    /\ inTx' = [inTx EXCEPT ![p] = FALSE]
    /\ wMig' = [wMig EXCEPT ![p] = NoWrites]
    /\ wLog' = [wLog EXCEPT ![p] = <<>>]
    /\ wAdd' = [wAdd EXCEPT ![p] = {}]
    /\ wDel' = [wDel EXCEPT ![p] = {}]
    /\ pc' = [pc EXCEPT ![p] = "idle"]
    /\ op' = [op EXCEPT ![p] = NoOp]
    /\ todo' = [todo EXCEPT ![p] = <<>>]
    /\ stmt' = [stmt EXCEPT ![p] = 0]
    /\ err' = [err EXCEPT ![p] = "none"]
    /\ pre' = [pre EXCEPT ![p] = NoPre]
    /\ done' = [done EXCEPT ![p] = <<>>]
    /\ autocommit' = [autocommit EXCEPT ![p] = FALSE]
    /\ txAt' = [txAt EXCEPT ![p] = 0]
    /\ last' = NoLast
    /\ hooks' = [hooks EXCEPT ![p] = <<>>]
    /\ ret' = [ret EXCEPT ![p] = FALSE]
    /\ UNCHANGED <<fileVars, dbVars, clock, vret, nops>>

\* ------------------------------------------------------ verify_checksums
\* Faulty variant: the query forgets WHERE status = 'applied'.
ChecksumIssues_any_status(t) ==
    {m \in SeqToSet(get_migration_files) :
        /\ t[m].status # "absent"
        /\ calculate_checksum(content[m]) # t[m].checksum}

\* issues: one per script file whose id is applied and whose checksum
\* differs from the stored one; return not issues.
ChecksumIssues(t) ==
    {m \in SeqToSet(get_migration_files) :
        /\ m \in SeqToSet(AppliedDetails(t))
        /\ calculate_checksum(content[m]) # t[m].checksum}

verify_checksums(p) ==
    /\ pc[p] = "idle"
    /\ vret' = [vret EXCEPT ![p] = (ChecksumIssues(mig) = {})]
    /\ pc' = [pc EXCEPT ![p] = "verified"]
    /\ UNCHANGED <<fileVars, last, lost, hooks, ret, dbVars, clock, lockHolder, connVars, op, todo, stmt, err,
                   pre, done, nops>>

\* ------------------------------------------------- the scripts directory
Quiet == \A p \in Procs : pc[p] = "idle"

\* The user edits a script file between engine calls (the test appends
\* "-- modified"): its text, and so its checksum, changes.
modify_file ==
    /\ Quiet
    /\ nedits < MaxEdits
    /\ \E m \in present : content' = [content EXCEPT ![m] = @ + 1]
    /\ nedits' = nedits + 1
    /\ UNCHANGED <<corpus, present, text, parsed, squashVars, seeds, uses, last, lost, hooks, ret, dbVars, clock, lockHolder, pc, connVars, callVars>>

\* The user deletes a script file between engine calls.
remove_file ==
    /\ Quiet
    /\ nedits < MaxEdits
    /\ \E m \in present : present' = present \ {m}
    /\ nedits' = nedits + 1
    /\ UNCHANGED <<corpus, content, text, parsed, squashVars, seeds, uses, last, lost, hooks, ret, dbVars, clock, lockHolder, pc, connVars, callVars>>

\* ---------------------------------------------------------- atomic_write
engineVars == <<dbVars, clock, lockHolder, pc, connVars, callVars, last, lost, hooks, ret>>
scriptVars == <<corpus, content, nedits, text, parsed, seeds, uses>>

\* The text of the file of a script, NoFile when there is no such file.
FileText(f) ==
    IF f \in Ids THEN (IF f \in present THEN content[f] ELSE NoFile) ELSE dest[f]

\* What a writer writes: its own text.
WriterText(p) == p

\* A command creates a file: with atomic_write(filepath, exclusive=True) as f.
create_file(p) ==
    /\ aw[p].pc = "idle"
    /\ \E path \in NewIds :
          aw' = [aw EXCEPT ![p] = [pc |-> "exists", path |-> path, exclusive |-> TRUE,
                                   content |-> WriterText(p), tmp |-> NoFile]]
    /\ UNCHANGED <<engineVars, scriptVars, present, sq, backup_dir, backup, dest>>

\* with atomic_write(filepath) as f: exclusive is False by default, and a
\* file at the path is to be replaced.
write_file(p) ==
    /\ aw[p].pc \in {"idle", "done", "raised"}
    /\ \E path \in NewIds :
          aw' = [aw EXCEPT ![p] = [pc |-> "exists", path |-> path, exclusive |-> FALSE,
                                   content |-> WriterText(p), tmp |-> NoFile]]
    /\ UNCHANGED <<engineVars, scriptVars, present, sq, backup_dir, backup, dest>>

\* if exclusive and os.path.exists(filepath): raise FileExistsError
atomic_write_exists(p) ==
    /\ aw[p].pc = "exists"
    /\ aw' = [aw EXCEPT ![p].pc = IF aw[p].exclusive /\ dest[aw[p].path] # NoFile
                                   THEN "raised" ELSE "mkstemp"]
    /\ UNCHANGED <<engineVars, scriptVars, present, sq, backup_dir, backup, dest>>

\* fd, temp_path = tempfile.mkstemp(prefix=prefix, dir=dir_name): a new,
\* empty file next to the target.
atomic_write_mkstemp(p) ==
    /\ aw[p].pc = "mkstemp"
    /\ aw' = [aw EXCEPT ![p].pc = "body", ![p].tmp = Truncated]
    /\ UNCHANGED <<engineVars, scriptVars, present, sq, backup_dir, backup, dest>>

\* yield f: the caller's f.write(..); f.flush(); os.fsync(f.fileno())
atomic_write_body(p) ==
    /\ aw[p].pc = "body"
    /\ aw' = [aw EXCEPT ![p].pc = "replace", ![p].tmp = aw[p].content]
    /\ UNCHANGED <<engineVars, scriptVars, present, sq, backup_dir, backup, dest>>

\* Faulty variant: the exception propagates without the cleanup.
atomic_write_body_fails_keeps_temp(p) ==
    /\ aw[p].pc = "body"
    /\ aw' = [aw EXCEPT ![p].pc = "raised"]
    /\ UNCHANGED <<engineVars, scriptVars, present, sq, backup_dir, backup, dest>>

\* except Exception: os.remove(temp_path); raise
atomic_write_body_fails(p) ==
    /\ aw[p].pc = "body"
    /\ aw' = [aw EXCEPT ![p].pc = "raised", ![p].tmp = NoFile]
    /\ UNCHANGED <<engineVars, scriptVars, present, sq, backup_dir, backup, dest>>

\* os.replace(temp_path, filepath): the rename puts the temp file at the
\* target, whether or not a file is there.
atomic_write_replace(p) ==
    /\ aw[p].pc = "replace"
    /\ dest' = [dest EXCEPT ![aw[p].path] = aw[p].tmp]
    /\ aw' = [aw EXCEPT ![p].pc = "done", ![p].tmp = NoFile]
    /\ UNCHANGED <<engineVars, scriptVars, present, sq, backup_dir, backup>>

\* ------------------------------------------------------------ cmd_squash
\* get_migration_files(): glob of migrations/*.sql, sorted.
SquashFiles == SortedIds(present \cup {n \in NewIds : dest[n] # NoFile})

\* applied_ids = get_applied_migrations(conn); all_migrations = ..;
\* pending = ..; return when fewer than two scripts are pending.
squash_start ==
    /\ sq.pc = "idle"
    /\ \E dry \in BOOLEAN :
          LET pending == SeqFilter(SquashFiles, Files \ AppliedIds(mig)) IN
          sq' = [pc |-> IF Len(pending) < 2 THEN "done" ELSE "parse",
                 dry |-> dry, pending |-> pending, i |-> 1, new |-> 0,
                 orig |-> [f \in Files |-> FileText(f)]]
    /\ UNCHANGED <<engineVars, scriptVars, present, backup_dir, backup, dest, aw>>

\* up, down, no_trans = parse_migration_sql(content, filepath), with the
\* function of core.py, which takes one parameter: TypeError.  The call is
\* not inside the try block, so the exception ends cmd_squash.
squash_parse_raises ==
    /\ sq.pc = "parse"
    /\ sq' = [sq EXCEPT !.pc = "raised"]
    /\ UNCHANGED <<engineVars, scriptVars, present, backup_dir, backup, dest, aw>>

\* The call returns, with the two-parameter parse_migration_sql that
\* cmd_squash is written for: a script with a non-empty up section parses.
squash_parse_returns ==
    /\ sq.pc = "parse"
    /\ LET m == sq.pending[sq.i] IN
       /\ FileText(m) # NoFile
       /\ m \in Ids => corpus[m].upLen # 0
    /\ sq' = IF sq.i = Len(sq.pending) THEN [sq EXCEPT !.pc = "build"]
             ELSE [sq EXCEPT !.i = sq.i + 1]
    /\ UNCHANGED <<engineVars, scriptVars, present, backup_dir, backup, dest, aw>>

\* Faulty variant: the dry_run flag is not looked at.
AfterBuild_ignores_dry_run(dry) == "makedirs"

\* if dry_run: .. return
AfterBuild(dry) == IF dry THEN "done" ELSE "makedirs"

\* migration_id = str(ULID()); new_filepath = ..; new_content = ..
squash_build ==
    /\ sq.pc = "build"
    /\ \E n \in NewIds : sq' = [sq EXCEPT !.pc = AfterBuild(sq.dry), !.new = n]
    /\ UNCHANGED <<engineVars, scriptVars, present, backup_dir, backup, dest, aw>>

\* Step 1: os.makedirs(BACKUP_DIR, exist_ok=True)
squash_makedirs ==
    /\ sq.pc = "makedirs"
    /\ backup_dir' = TRUE
    /\ sq' = [sq EXCEPT !.pc = "copy", !.i = 1]
    /\ UNCHANGED <<engineVars, scriptVars, present, backup, dest, aw>>

\* Step 2: shutil.copy2(old_path, backup_path) opens the source, then opens
\* the backup file for writing, which empties it.
squash_copy_open ==
    /\ sq.pc = "copy"
    /\ LET m == sq.pending[sq.i] IN
       IF FileText(m) = NoFile
       THEN /\ sq' = [sq EXCEPT !.pc = "failed"]
            /\ UNCHANGED backup
       ELSE /\ backup' = [backup EXCEPT ![m] = Truncated]
            /\ sq' = [sq EXCEPT !.pc = "copying"]
    /\ UNCHANGED <<engineVars, scriptVars, present, backup_dir, dest, aw>>

\* The body of atomic_write(new_filepath, exclusive=True) is entered by the
\* process that runs cmd_squash, process 1.
SquashWrite ==
    [pc |-> "exists", path |-> sq.new, exclusive |-> TRUE, content |-> WriterText(1),
     tmp |-> NoFile]

\* Faulty variant: the source is moved to the backup directory, not copied.
squash_copy_write_moves ==
    /\ sq.pc = "copying"
    /\ LET m == sq.pending[sq.i] IN
       /\ backup' = [backup EXCEPT ![m] = FileText(m)]
       /\ present' = present \ {m}
       /\ dest' = [n \in NewIds |-> IF n = m THEN NoFile ELSE dest[n]]
    /\ IF sq.i = Len(sq.pending)
       THEN /\ sq' = [sq EXCEPT !.pc = "write"]
            /\ aw' = [aw EXCEPT ![1] = SquashWrite]
       ELSE /\ sq' = [sq EXCEPT !.pc = "copy", !.i = sq.i + 1]
            /\ UNCHANGED aw
    /\ UNCHANGED <<engineVars, scriptVars, backup_dir>>

\* shutil.copy2 writes the text of the source to the backup file; after the
\* last copy, Step 3: with atomic_write(new_filepath, exclusive=True) as f.
squash_copy_write ==
    /\ sq.pc = "copying"
    /\ LET m == sq.pending[sq.i] IN
       backup' = [backup EXCEPT ![m] = FileText(m)]
    /\ IF sq.i = Len(sq.pending)
       THEN /\ sq' = [sq EXCEPT !.pc = "write"]
            /\ aw' = [aw EXCEPT ![1] = SquashWrite]
       ELSE /\ sq' = [sq EXCEPT !.pc = "copy", !.i = sq.i + 1]
            /\ UNCHANGED aw
    /\ UNCHANGED <<engineVars, scriptVars, present, backup_dir, dest>>

\* The with statement of Step 3 is left, normally or with the exception of
\* atomic_write.
squash_written ==
    /\ sq.pc = "write"
    /\ aw[1].pc \in {"done", "raised"}
    /\ sq' = [sq EXCEPT !.pc = IF aw[1].pc = "done" THEN "verify" ELSE "failed"]
    /\ UNCHANGED <<engineVars, scriptVars, present, backup_dir, backup, dest, aw>>

\* Step 4: if not os.path.exists(new_filepath): raise; if getsize == 0: raise
squash_verify ==
    /\ sq.pc = "verify"
    /\ sq' = IF dest[sq.new] \in {NoFile, Truncated}
             THEN [sq EXCEPT !.pc = "failed"]
             ELSE [sq EXCEPT !.pc = "delete", !.i = 1]
    /\ UNCHANGED <<engineVars, scriptVars, present, backup_dir, backup, dest, aw>>

\* Step 5: for _, _, old_path in pending: os.remove(old_path)
squash_delete ==
    /\ sq.pc = "delete"
    /\ LET m == sq.pending[sq.i] IN
       IF FileText(m) = NoFile
       THEN /\ sq' = [sq EXCEPT !.pc = "failed"]
            /\ UNCHANGED <<present, dest>>
       ELSE /\ present' = present \ {m}
            /\ dest' = [n \in NewIds |-> IF n = m THEN NoFile ELSE dest[n]]
            /\ sq' = IF sq.i = Len(sq.pending) THEN [sq EXCEPT !.pc = "done"]
                     ELSE [sq EXCEPT !.i = sq.i + 1]
    /\ UNCHANGED <<engineVars, scriptVars, backup_dir, backup, aw>>

\* except Exception: .. sys.exit(1): a call of the file system inside the
\* try block fails (no space, no permission).
squash_fails ==
    /\ sq.pc \in {"makedirs", "copy", "copying", "verify", "delete"}
    /\ sq' = [sq EXCEPT !.pc = "failed"]
    /\ UNCHANGED <<engineVars, scriptVars, present, backup_dir, backup, dest, aw>>

\* ---------------------------------------------------------------- Next
Step(p) ==
    \/ apply_migrations(p)
    \/ rollback_migrations(p)
    \/ advisory_lock_acquire(p)
    \/ check_failed_migrations(p)
    \/ get_applied_migrations(p)
    \/ get_applied_migrations_details(p)
    \/ apply_dry_run(p)
    \/ apply_transactional(p)
    \/ apply_no_transaction(p)
    \/ apply_no_transaction_stmt(p)
    \/ apply_no_transaction_row(p)
    \/ apply_no_transaction_log(p)
    \/ rollback_dry_run(p)
    \/ rollback_transactional(p)
    \/ rollback_no_transaction(p)
    \/ rollback_no_transaction_stmt(p)
    \/ rollback_no_transaction_row(p)
    \/ rollback_no_transaction_log(p)
    \/ loop_done(p)
    \/ advisory_lock_release(p)
    \/ advisory_lock_commit(p)
    \/ conn_close(p)

\* Two engine processes against one database and one scripts directory.
Next == \E p \in Procs : Step(p)

Spec == Init /\ [][Next]_vars

\* One engine process, with verify and with edits of the scripts directory
\* between its calls.
NextSeq ==
    \/ Step(1)
    \/ rollback_missing_file(1)
    \/ verify_checksums(1)
    \/ modify_file
    \/ remove_file

SpecSeq == Init /\ [][NextSeq]_vars

\* Every step of a call that is under way: a process that entered
\* apply_migrations or rollback_migrations keeps running, and PostgreSQL
\* grants a free advisory lock to a session that waits for it.
Run(p) ==
    \/ advisory_lock_acquire(p)
    \/ check_failed_migrations(p)
    \/ get_applied_migrations(p)
    \/ get_applied_migrations_details(p)
    \/ apply_dry_run(p)
    \/ apply_transactional(p)
    \/ apply_no_transaction(p)
    \/ apply_no_transaction_stmt(p)
    \/ apply_no_transaction_row(p)
    \/ apply_no_transaction_log(p)
    \/ rollback_missing_file(p)
    \/ rollback_dry_run(p)
    \/ rollback_transactional(p)
    \/ rollback_no_transaction(p)
    \/ rollback_no_transaction_stmt(p)
    \/ rollback_no_transaction_row(p)
    \/ rollback_no_transaction_log(p)
    \/ loop_done(p)
    \/ advisory_lock_release(p)
    \/ advisory_lock_commit(p)
    \/ conn_close(p)

\* Two engine processes whose calls run to their end, with files removed
\* from the scripts directory between calls.
NextLive ==
    \/ \E p \in Procs : apply_migrations(p) \/ rollback_migrations(p) \/ Run(p)
    \/ remove_file

\* Scripts with a complete down section that succeeds, failing at the last
\* up statement if at all: every exit path of a call, on fewer corpora.
ScriptsLive ==
    {s \in Scripts : /\ s.downLen = MaxStmts
                     /\ s.downFail = 0
                     /\ s.upFail \in {0, MaxStmts}}

InitLive == Init /\ corpus \in [Ids -> ScriptsLive]

SpecLive == InitLive /\ [][NextLive]_vars /\ \A p \in Procs : WF_vars(Run(p))

\* A caller hands the text of one script file to parse_migration_sql.
parse_script ==
    /\ ~parsed.called
    /\ parsed' = parse_migration_sql(text)
    /\ UNCHANGED <<corpus, present, content, nedits, text, squashVars, seeds, uses, last, lost, hooks, ret,
                   dbVars, clock,
                   lockHolder, pc, connVars, callVars>>

\* Two engine processes, each of which may lose its session while it
\* holds the lock, on the corpora of ScriptsLive.
NextCrash == Next \/ \E p \in Procs : session_lost(p)

SpecCrash == InitLive /\ [][NextCrash]_vars

\* One engine process whose hooks may exit non-zero.
NextHooks ==
    \/ Step(1)
    \/ execute_hook_pre_fails(1)
    \/ execute_hook_pre_raised(1)
    \/ execute_hook_post_fails(1)

SpecHooks == Init /\ [][NextHooks]_vars

\* The engine with every process idle.
EngineIdle ==
    /\ log = <<>>
    /\ schema = {}
    /\ clock = 1
    /\ lockHolder = 0
    /\ pc = [p \in Procs |-> "idle"]
    /\ op = [p \in Procs |-> NoOp]
    /\ inTx = [p \in Procs |-> FALSE]
    /\ autocommit = [p \in Procs |-> FALSE]
    /\ txAt = [p \in Procs |-> 0]
    /\ wMig = [p \in Procs |-> NoWrites]
    /\ wLog = [p \in Procs |-> <<>>]
    /\ wAdd = [p \in Procs |-> {}]
    /\ wDel = [p \in Procs |-> {}]
    /\ todo = [p \in Procs |-> <<>>]
    /\ stmt = [p \in Procs |-> 0]
    /\ err = [p \in Procs |-> "none"]
    /\ pre = [p \in Procs |-> NoPre]
    /\ done = [p \in Procs |-> <<>>]
    /\ vret = [p \in Procs |-> TRUE]
    /\ nops = 0
    /\ nedits = 0
    /\ last = NoLast
    /\ text = <<>>
    /\ parsed = NoParse
    /\ lost = {}
    /\ hooks = [p \in Procs |-> <<>>]
    /\ ret = [p \in Procs |-> FALSE]

\* Transactional scripts without failing statements, with both sections or
\* with none.
ScriptsSquash ==
    {s \in Scripts : ~s.noTx /\ s.upFail = 0 /\ s.downFail = 0 /\ s.downLen = s.upLen}

\* One cmd_squash call on a directory with any of the scripts, any of them
\* applied, and any file at the paths a new script may get.
InitSquash ==
    /\ EngineIdle
    /\ corpus \in [Ids -> ScriptsSquash]
    /\ present \in SUBSET Ids
    /\ content = [m \in Ids |-> m]
    /\ mig \in [Ids -> {Absent, [status |-> "applied", at |-> 1, checksum |-> 0]}]
    /\ sq = NoSquash
    /\ backup_dir \in BOOLEAN
    /\ backup = [f \in Files |-> NoFile]
    /\ dest \in [NewIds -> {NoFile, OldText}]
    /\ aw = [p \in Procs |-> NoWrite]
    /\ seeds = NoSeeds
    /\ uses = NoUses

NextSquash ==
    \/ squash_start
    \/ squash_parse_raises
    \/ squash_parse_returns
    \/ squash_build
    \/ squash_makedirs
    \/ squash_copy_open
    \/ squash_copy_write
    \/ atomic_write_exists(1)
    \/ atomic_write_mkstemp(1)
    \/ atomic_write_body(1)
    \/ atomic_write_body_fails(1)
    \/ atomic_write_replace(1)
    \/ squash_written
    \/ squash_verify
    \/ squash_delete
    \/ squash_fails

SpecSquash == InitSquash /\ [][NextSquash]_vars

\* Two engine processes on corpora in which the up SQL of script 2 may use
\* an object that the up SQL of script 1 creates.
InitDry ==
    /\ EngineIdle
    /\ corpus \in [Ids -> ScriptsLive]
    /\ present = Ids
    /\ content = [m \in Ids |-> 1]
    /\ mig = [m \in Ids |-> Absent]
    /\ sq = NoSquash
    /\ backup_dir = FALSE
    /\ backup = [f \in Files |-> NoFile]
    /\ dest = [n \in NewIds |-> NoFile]
    /\ aw = [p \in Procs |-> NoWrite]
    /\ seeds = NoSeeds
    /\ uses \in {u \in [Ids -> {0} \cup Ids] : \A m \in Ids : u[m] < m}

SpecDry == InitDry /\ [][Next]_vars

\* ------------------------------------------------------------ run_seeds
\* sorted(glob.glob("seeds/*.sql"))
get_seed_files == SortedIds({s \in SeedIds : seeds[s] # NoSeedFile})

\* seeds = get_seed_files(); return when there is none; get_connection
run_seeds(p) ==
    /\ pc[p] = "idle"
    /\ nops < MaxOps
    /\ nops' = nops + 1
    /\ IF get_seed_files = <<>>
       THEN UNCHANGED <<pc, op, todo>>
       ELSE /\ pc' = [pc EXCEPT ![p] = "seed"]
            /\ op' = [op EXCEPT ![p] = [kind |-> "seed", n |-> 0, dry |-> FALSE]]
            /\ todo' = [todo EXCEPT ![p] = get_seed_files]
    /\ UNCHANGED <<fileVars, last, lost, hooks, ret, dbVars, clock, lockHolder, connVars, stmt, err,
                   pre, done, vret>>

\* Faulty variant: the file's SQL runs on the connection without a
\* transaction block of its own, so nothing commits it before the next file.
seed_file_no_commit(p) ==
    /\ pc[p] = "seed"
    /\ todo[p] # <<>>
    /\ LET s == Head(todo[p]) IN
       IF seeds[s] # 0
       THEN /\ err' = [err EXCEPT ![p] = "sql"]
            /\ pc' = [pc EXCEPT ![p] = "closing"]
            /\ UNCHANGED <<schema, inTx, txAt, clock, wAdd, todo, done>>
       ELSE /\ wAdd' = [wAdd EXCEPT ![p] = @ \cup Effects(s)]
            /\ inTx' = [inTx EXCEPT ![p] = TRUE]
            /\ todo' = [todo EXCEPT ![p] = Tail(@)]
            /\ done' = [done EXCEPT ![p] = Append(@, s)]
            /\ UNCHANGED <<schema, txAt, clock, err, pc>>
    /\ UNCHANGED <<fileVars, last, lost, hooks, ret, mig, log, lockHolder, autocommit, wMig, wLog,
                   wDel, op, stmt, pre, vret, nops>>

\* One iteration of the loop: with conn.transaction(): cur.execute(sql).
\* On a connection that is idle the block is a transaction of its own
\* (BEGIN, then COMMIT at its end or ROLLBACK on an exception); on a
\* connection with a transaction open it is a savepoint of that
\* transaction.  except Exception: raise e.
seed_file(p) ==
    /\ pc[p] = "seed"
    /\ todo[p] # <<>>
    /\ LET s == Head(todo[p])
           outer == ~inTx[p] IN
       /\ IF outer THEN txAt' = [txAt EXCEPT ![p] = clock] ELSE UNCHANGED txAt
       /\ IF seeds[s] # 0
          THEN /\ err' = [err EXCEPT ![p] = "sql"]
               /\ pc' = [pc EXCEPT ![p] = "closing"]
               /\ UNCHANGED <<schema, inTx, wAdd, todo, done>>
          ELSE /\ IF outer
                  THEN /\ schema' = schema \cup wAdd[p] \cup Effects(s)
                       /\ wAdd' = [wAdd EXCEPT ![p] = {}]
                  ELSE /\ wAdd' = [wAdd EXCEPT ![p] = @ \cup Effects(s)]
                       /\ UNCHANGED schema
               /\ todo' = [todo EXCEPT ![p] = Tail(@)]
               /\ done' = [done EXCEPT ![p] = Append(@, s)]
               /\ UNCHANGED <<inTx, err, pc>>
    /\ UNCHANGED <<fileVars, last, lost, hooks, ret, mig, log, clock, lockHolder, autocommit, wMig,
                   wLog, wDel, op, stmt, pre, vret, nops>>

\* The loop is over: finally: conn.close()
seed_loop_done(p) ==
    /\ pc[p] = "seed"
    /\ todo[p] = <<>>
    /\ pc' = [pc EXCEPT ![p] = "closing"]
    /\ UNCHANGED <<fileVars, last, lost, hooks, ret, dbVars, clock, lockHolder, connVars, callVars>>

\* One process that runs the seeds of a seeds directory with any files.
InitSeed ==
    /\ EngineIdle
    /\ corpus = [m \in Ids |-> [noTx |-> FALSE, upLen |-> MaxStmts, upFail |-> 0,
                                 downLen |-> MaxStmts, downFail |-> 0]]
    /\ present = Ids
    /\ content = [m \in Ids |-> m]
    /\ mig = [m \in Ids |-> Absent]
    /\ sq = NoSquash
    /\ backup_dir = FALSE
    /\ backup = [f \in Files |-> NoFile]
    /\ dest = [n \in NewIds |-> NoFile]
    /\ aw = [p \in Procs |-> NoWrite]
    /\ seeds \in [SeedIds -> SeedTexts]
    /\ uses = NoUses

NextSeed ==
    \/ run_seeds(1)
    \/ seed_file(1)
    \/ seed_loop_done(1)
    \/ conn_close(1)

SpecSeed == InitSeed /\ [][NextSeed]_vars

\* Values a caller of apply_migrations passes as limit beside None and 1.
LimitArgs == {0, 2}

\* def apply_migrations(limit: Optional[int] = None, ..), called with one of
\* LimitArgs.
apply_migrations_limit(p) ==
    \E limit \in LimitArgs, dry \in BOOLEAN : StartCall(p, "apply", limit, dry)

\* One engine process whose apply() calls pass any limit from 0 up.
NextLimit ==
    \/ Step(1)
    \/ apply_migrations_limit(1)

SpecLimit == Init /\ [][NextLimit]_vars

\* Values a caller of rollback_migrations passes as steps beside 1 and 2:
\* the parser takes any int.
StepArgs == {-1, 0, 3}

\* def rollback_migrations(steps: int = 1, ..), called with one of StepArgs.
rollback_migrations_steps(p) ==
    \E steps \in StepArgs, dry \in BOOLEAN : StartCall(p, "rollback", steps, dry)

\* One engine process whose rollback() calls pass any number of steps.
NextSteps ==
    \/ Step(1)
    \/ rollback_migrations_steps(1)

SpecSteps == Init /\ [][NextSteps]_vars

\* One engine process and one cmd_squash call, as the code of cmd_squash
\* runs: no lock call anywhere in it, and the parse call as squash_parse_raises
\* has it, so the scripts directory stays as it is.
NextRace ==
    \/ Step(1)
    \/ squash_start
    \/ squash_parse_raises

SpecRace == InitLive /\ [][NextRace]_vars

\* Two commands that each create a file with atomic_write.
InitWrite ==
    /\ EngineIdle
    /\ corpus = [m \in Ids |-> [noTx |-> FALSE, upLen |-> MaxStmts, upFail |-> 0,
                                 downLen |-> MaxStmts, downFail |-> 0]]
    /\ present = Ids
    /\ content = [m \in Ids |-> m]
    /\ mig = [m \in Ids |-> Absent]
    /\ sq = NoSquash
    /\ backup_dir = FALSE
    /\ backup = [f \in Files |-> NoFile]
    /\ dest \in [NewIds -> {NoFile, OldText}]
    /\ aw = [p \in Procs |-> NoWrite]
    /\ seeds = NoSeeds
    /\ uses = NoUses

NextWrite ==
    \E p \in Procs :
        \/ create_file(p)
        \/ atomic_write_exists(p)
        \/ atomic_write_mkstemp(p)
        \/ atomic_write_body(p)
        \/ atomic_write_body_fails(p)
        \/ atomic_write_replace(p)

SpecWrite == InitWrite /\ [][NextWrite]_vars

\* Two commands that write files with atomic_write, exclusive or not, one
\* call after the other.
NextAtomic ==
    \E p \in Procs :
        \/ write_file(p)
        \/ create_file(p)
        \/ atomic_write_exists(p)
        \/ atomic_write_mkstemp(p)
        \/ atomic_write_body(p)
        \/ atomic_write_body_fails(p)
        \/ atomic_write_replace(p)

SpecAtomic == InitWrite /\ [][NextAtomic]_vars

\* parse_migration_sql on every text of at most MaxLines lines.
InitParse ==
    /\ text \in Texts
    /\ parsed = NoParse
    /\ corpus = [m \in Ids |-> [noTx |-> FALSE, upLen |-> MaxStmts, upFail |-> 0,
                                 downLen |-> MaxStmts, downFail |-> 0]]
    /\ present = Ids
    /\ content = [m \in Ids |-> 1]
    /\ mig = [m \in Ids |-> Absent]
    /\ log = <<>>
    /\ schema = {}
    /\ clock = 1
    /\ lockHolder = 0
    /\ pc = [p \in Procs |-> "idle"]
    /\ op = [p \in Procs |-> NoOp]
    /\ inTx = [p \in Procs |-> FALSE]
    /\ autocommit = [p \in Procs |-> FALSE]
    /\ txAt = [p \in Procs |-> 0]
    /\ wMig = [p \in Procs |-> NoWrites]
    /\ wLog = [p \in Procs |-> <<>>]
    /\ wAdd = [p \in Procs |-> {}]
    /\ wDel = [p \in Procs |-> {}]
    /\ todo = [p \in Procs |-> <<>>]
    /\ stmt = [p \in Procs |-> 0]
    /\ err = [p \in Procs |-> "none"]
    /\ pre = [p \in Procs |-> NoPre]
    /\ done = [p \in Procs |-> <<>>]
    /\ vret = [p \in Procs |-> TRUE]
    /\ nops = 0
    /\ nedits = 0
    /\ last = NoLast
    /\ lost = {}
    /\ hooks = [p \in Procs |-> <<>>]
    /\ ret = [p \in Procs |-> FALSE]
    /\ sq = NoSquash
    /\ backup_dir = FALSE
    /\ backup = [f \in Files |-> NoFile]
    /\ dest = [n \in NewIds |-> NoFile]
    /\ aw = [p \in Procs |-> NoWrite]
    /\ seeds = NoSeeds
    /\ uses = NoUses

NextParse == parse_script

SpecParse == InitParse /\ [][NextParse]_vars

\* One entry per script file: the ledger row's status, or 'pending'.
get_migration_status ==
    [m \in SeqToSet(get_migration_files) |->
        IF mig[m].status # "absent" THEN mig[m].status ELSE "pending"]

\* SELECT id, name, applied_at FROM _migrations
\* ORDER BY applied_at DESC, id DESC LIMIT 1: the id of the row, 0 for None.
get_head ==
    IF \A m \in Ids : mig[m].status = "absent" THEN 0
    ELSE Newest({m \in Ids : mig[m].status # "absent"}, mig)

\* ============================================================== claims
Count(m, action) ==
    Cardinality({i \in 1..Len(log) : log[i].mid = m /\ log[i].action = action})

NoDownRows == \A i \in 1..Len(log) : log[i].action # "DOWN"

\* Between a successful pg_advisory_lock and the pg_advisory_unlock.
Holding(p) == pc[p] \in {"check", "read", "details", "loop", "stmts", "row", "log", "unlock"}

NoUncommitted(p) ==
    wMig[p] = NoWrites /\ wLog[p] = <<>> /\ wAdd[p] = {} /\ wDel[p] = {}

Returned(p, kind) == pc[p] = "closing" /\ op[p].kind = kind /\ ~op[p].dry

\* C1: while only apply() calls have written the log (no DOWN row), however
\* the two processes interleave, no migration id has more than one UP row,
\* and once both processes have finished an id has exactly one UP row when
\* it is applied and none otherwise.
C1_OneUpRowPerMigration ==
    NoDownRows =>
        \A m \in Ids :
            /\ Count(m, "UP") <= 1
            /\ Quiet => (Count(m, "UP") = 1 <=> mig[m].status = "applied")

\* Both processes ran apply(); the second lost the race for a row the first
\* had not yet committed, and every script has its one UP row.
C1_Witness ==
    /\ Returned(1, "apply") /\ Returned(2, "apply")
    /\ done[1] = <<1, 2>> /\ err[2] = "unique"
    /\ \A m \in Ids : Count(m, "UP") = 1

\* C2: no two processes are at the same time between a successful lock
\* acquisition and its release; ledger reads and migration SQL happen only
\* there, so a process waiting for the lock does neither.
C2_MutualExclusion ==
    \A p, q \in Procs : (p # q /\ Holding(p)) => ~Holding(q)

\* Process 1 is executing a no-transaction script while process 2 waits.
C2_Witness == pc[1] = "stmts" /\ lockHolder = 1 /\ pc[2] = "lock"

\* C3 (as claimed): whenever a process holds the lock, no other process has
\* uncommitted ledger or schema writes: the lock is never released while
\* its holder still has uncommitted changes.
C3_CommittedBeforeRelease ==
    \A q \in Procs : lockHolder = q => \A p \in Procs \ {q} : NoUncommitted(p)

\* C4 (as claimed): an apply() that returns without error has added exactly
\* the scripts it processed to the applied set, in ascending id order.
C4_ApplyAddsProcessed ==
    \A p \in Procs :
        (Returned(p, "apply") /\ err[p] = "none") =>
            /\ AppliedIds(mig) = AppliedIds(pre[p].mig) \cup SeqToSet(done[p])
            /\ AppliedIds(pre[p].mig) \cap SeqToSet(done[p]) = {}
            /\ \A i, j \in 1..Len(done[p]) :
                  i < j => /\ done[p][i] < done[p][j]
                           /\ mig[done[p][i]].at <= mig[done[p][j]].at

\* C5 (as claimed): a rollback(K) that returns without error, with
\* 1 <= K <= number of applied rows, has removed exactly the K newest
\* applied rows, left every other row as it was, and logged K DOWN rows.
C5_RollbackRemovesNewest ==
    \A p \in Procs :
        (/\ Returned(p, "rollback") /\ err[p] = "none"
         /\ op[p].n >= 1 /\ op[p].n <= Cardinality(AppliedIds(pre[p].mig))) =>
            LET gone == SeqToSet(Slice(AppliedDetails(pre[p].mig), op[p].n)) IN
            /\ mig = [m \in Ids |-> IF m \in gone THEN Absent ELSE pre[p].mig[m]]
            /\ Len(log) = pre[p].loglen + op[p].n
            /\ \A i \in (pre[p].loglen + 1)..Len(log) : log[i].action = "DOWN"

\* C6: when the up SQL of a transactional script fails in apply(), the
\* script has no _migrations row and no _migrations_log row, none of its
\* schema effects exists, and status() lists it as pending.
C6_TransactionalFailureLeavesNothing ==
    \A p \in Procs :
        (/\ Returned(p, "apply") /\ err[p] = "sql"
         /\ ~corpus[Head(todo[p])].noTx) =>
            LET m == Head(todo[p]) IN
            /\ mig[m].status = "absent"
            /\ \A i \in 1..Len(log) : log[i].mid # m
            /\ schema \cap Effects(m) = {}
            /\ get_migration_status[m] = "pending"

\* A transactional script failed at its last statement, after an earlier
\* script of the same call was applied.
C6_Witness ==
    /\ Returned(1, "apply") /\ err[1] = "sql"
    /\ done[1] # <<>>
    /\ ~corpus[Head(todo[1])].noTx
    /\ corpus[Head(todo[1])].upFail = MaxStmts

\* C7: when statement i of a no-transaction script fails in apply(), the
\* script's row is 'failed', exactly the effects of statements 1..i-1 are
\* in the schema, and the script has no UP row in _migrations_log.
C7_NoTransactionFailureMarksFailed ==
    \A p \in Procs :
        (/\ Returned(p, "apply") /\ err[p] = "sql"
         /\ corpus[Head(todo[p])].noTx) =>
            LET m == Head(todo[p]) IN
            /\ mig[m].status = "failed"
            /\ \A j \in 1..MaxStmts : <<m, j>> \in schema <=> j < corpus[m].upFail
            /\ \A i \in 1..Len(log) : ~(log[i].mid = m /\ log[i].action = "UP")

\* A no-transaction script failed at its last statement: the earlier
\* statements' effects are committed.
C7_Witness ==
    /\ Returned(1, "apply") /\ err[1] = "sql"
    /\ corpus[Head(todo[1])].noTx
    /\ corpus[Head(todo[1])].upFail = MaxStmts
    /\ <<Head(todo[1]), 1>> \in schema

\* C8 (as claimed): with a 'failed' row in _migrations, apply() and
\* rollback(), dry_run or not, abort with the dirty-state error and leave
\* _migrations and _migrations_log unchanged.
C8_DirtyStateRefusesAll ==
    \A p \in Procs :
        (pc[p] = "closing" /\ FailedIds(pre[p].mig) # {}) =>
            /\ err[p] = "dirty"
            /\ mig = pre[p].mig
            /\ Len(log) = pre[p].loglen

\* C9 (as claimed): between calls the ledger agrees with the schema: an
\* 'applied' script has all its up effects, a script without a row has
\* none, and a script with only part of them has a 'failed' row.
C9_LedgerAgreesWithSchema ==
    Quiet =>
        \A m \in Ids :
            /\ mig[m].status = "applied" => UpEffects(m) \subseteq schema
            /\ mig[m].status = "absent" => Effects(m) \cap schema = {}
            /\ (Effects(m) \cap schema # {} /\ ~(Effects(m) \subseteq schema))
                  => mig[m].status = "failed"

\* C10: verify() returns true iff every id that is applied and has a file
\* on disk has the stored checksum equal to the file's current checksum;
\* applied ids without a file and 'failed' rows do not count.
C10_VerifyIffChecksumsMatch ==
    \A p \in Procs :
        pc[p] = "verified" =>
            (vret[p] <=>
                \A m \in Ids :
                    (mig[m].status = "applied" /\ m \in present) =>
                        mig[m].checksum = calculate_checksum(content[m]))

\* verify() returned false: an applied script's file was edited, while the
\* other script's row is 'failed'.
C10_Witness ==
    /\ pc[1] = "verified" /\ ~vret[1]
    /\ FailedIds(mig) # {}

\* C11: apply(dry_run=true) and rollback(dry_run=true), returning normally
\* or raising an SQL error, leave _migrations, _migrations_log and the
\* schema as they were when the call took the lock; nothing of a
\* transactional script's SQL stays and no script is logged as done.
C11_DryRunLeavesDatabase ==
    \A p \in Procs :
        (pc[p] = "closing" /\ op[p].dry) =>
            /\ mig = pre[p].mig
            /\ Len(log) = pre[p].loglen
            /\ schema = pre[p].schema
            /\ done[p] = <<>>

\* A dry run of apply() on a database with an applied script raised the
\* SQL error of a failing transactional script.
C11_Witness ==
    /\ pc[1] = "closing" /\ op[1].dry /\ op[1].kind = "apply"
    /\ err[1] = "sql"
    /\ AppliedIds(mig) # {}

\* C12 (as claimed): a successful apply() followed by a successful
\* rollback(N), N the number of scripts the apply() applied, each of them
\* with a complete down section, puts _migrations and the schema back to
\* what they were before the apply(); _migrations_log has gained N UP rows
\* and N DOWN rows.
C12_ApplyThenRollbackRestores ==
    \A p \in Procs :
        (/\ Returned(p, "rollback") /\ err[p] = "none"
         /\ last.ok /\ last.ndone >= 1 /\ op[p].n = last.ndone
         /\ \A m \in SeqToSet(done[p]) : corpus[m].downLen = MaxStmts) =>
            /\ mig = last.pre.mig
            /\ schema = last.pre.schema
            /\ Len(log) = last.pre.loglen + 2 * last.ndone
            /\ \A i \in 1..Len(log) :
                  /\ (last.pre.loglen < i /\ i <= last.pre.loglen + last.ndone)
                        => log[i].action = "UP"
                  /\ last.pre.loglen + last.ndone < i => log[i].action = "DOWN"

\* C13 (as claimed): after a successful apply(), a second apply() on the
\* unchanged scripts directory processes no script and leaves _migrations,
\* _migrations_log and the schema as they were.
C13_SecondApplyIsNoOp ==
    \A p \in Procs :
        (/\ Returned(p, "apply")
         /\ last.ok /\ last.n = NoLimit /\ last.nedits = nedits) =>
            /\ done[p] = <<>>
            /\ mig = pre[p].mig
            /\ Len(log) = pre[p].loglen
            /\ schema = pre[p].schema

\* C14: on every exit path taken after the lock was acquired the advisory
\* lock is released before the call returns: a process that has returned
\* does not hold the lock, every holder gives the lock up, and a process
\* waiting for the lock acquires it.
C14_LockReleasedOnEveryExit ==
    \A p \in Procs :
        /\ [](pc[p] \in {"closing", "idle"} => lockHolder # p)
        /\ (lockHolder = p) ~> (lockHolder # p)
        /\ (pc[p] = "lock") ~> (lockHolder = p)

\* Process 1 leaves apply() by the SQL error of a no-transaction script
\* while it holds the lock and process 2 waits for it.
C14_Witness ==
    /\ pc[1] = "unlock" /\ err[1] = "sql" /\ lockHolder = 1
    /\ corpus[Head(todo[1])].noTx
    /\ pc[2] = "lock"

\* C15 (as claimed): when the execution of a no-transaction script is over,
\* by success or by a failing statement, conn.autocommit is false again:
\* it is false whenever the loop moves to the next script, at the
\* lock-release step and when the call returns.
C15_AutocommitRestored ==
    \A p \in Procs :
        pc[p] \in {"loop", "unlock", "commit", "closing"} => ~autocommit[p]

\* C16 (as claimed): a rollback(steps), steps >= 1, that selects an applied
\* migration without a script file on disk aborts with the missing-file
\* error having executed no down SQL: _migrations, _migrations_log and the
\* schema are as they were when the call took the lock.
C16_MissingFileAbortsBeforeSql ==
    \A p \in Procs :
        (/\ pc[p] = "closing" /\ op[p].kind = "rollback" /\ op[p].n >= 1
         /\ \E m \in SeqToSet(Slice(AppliedDetails(pre[p].mig), op[p].n)) :
               m \notin present) =>
            /\ err[p] = "missing"
            /\ done[p] = <<>>
            /\ mig = pre[p].mig
            /\ Len(log) = pre[p].loglen
            /\ schema = pre[p].schema

\* C17 (as claimed): parse_migration_sql raises an error when the text has
\* no '-- migrate: up' directive and when the up section is empty or white
\* space only, and in no other case; when it does not raise, a missing or
\* empty down section gives down_sql = "".
C17_ParseRejectsMissingUp ==
    parsed.called =>
        /\ parsed.raised <=>
              \/ "up" \notin SeqToSet(text)
              \/ Strip(parsed.up_sql) = <<>>
        /\ (~parsed.raised /\ "down" \notin SeqToSet(text)) => parsed.down_sql = <<>>

\* C18 (as claimed): an apply() that reaches a pending script with an empty
\* up section aborts there: the script gets no 'applied' row and no UP log
\* row, the call raises, and no later script is processed.
C18_EmptyUpAbortsApply ==
    \A p \in Procs : \A m \in Ids :
        (/\ Returned(p, "apply")
         /\ corpus[m].upLen = 0 /\ m \in present
         /\ pre[p].mig[m].status = "absent") =>
            /\ mig[m].status # "applied"
            /\ Count(m, "UP") = 0
            /\ \A k \in SeqToSet(done[p]) : k < m
            /\ op[p].n = NoLimit => err[p] # "none"

\* C19 (as claimed): a rollback that selects an applied script with an up
\* section and without a down section aborts: the script's _migrations row is not deleted and no
\* DOWN row is appended to _migrations_log for it.
C19_NoDownAbortsRollback ==
    \A p \in Procs : \A m \in Ids :
        (/\ pc[p] = "closing" /\ op[p].kind = "rollback" /\ ~op[p].dry
         /\ corpus[m].upLen = MaxStmts /\ corpus[m].downLen = 0 /\ m \in present
         /\ m \in SeqToSet(Slice(AppliedDetails(pre[p].mig), op[p].n))) =>
            /\ mig[m] = pre[p].mig[m]
            /\ Count(m, "DOWN") = 0
            /\ err[p] # "none"

\* C20 (as claimed): status() has one entry for every id that has a script
\* file or a _migrations row: the row's status when there is a row,
\* 'pending' otherwise; an id with a row and no file is listed too.
C20_StatusListsUnion ==
    Quiet =>
        /\ DOMAIN get_migration_status
              = present \cup {m \in Ids : mig[m].status # "absent"}
        /\ \A m \in DOMAIN get_migration_status :
              get_migration_status[m]
                = IF mig[m].status # "absent" THEN mig[m].status ELSE "pending"

\* C21 (as claimed): head() is the newest row of _migrations whose status is
\* 'applied' (greatest applied_at, then greatest id), none when no row is
\* applied, and never a row whose status is 'failed'.
C21_HeadIsNewestApplied ==
    /\ get_head = (IF AppliedIds(mig) = {} THEN 0 ELSE Newest(AppliedIds(mig), mig))
    /\ get_head # 0 => mig[get_head].status # "failed"

\* C25: no step of the engine removes or alters a committed row of
\* _migrations_log: whatever apply, rollback and verify calls run, succeed
\* or fail, and however two processes interleave, the committed log after a
\* step is the committed log before it with rows appended at the end.
\* status(), head() and squash read the database and write nothing to it.
C25_LogAppendOnly ==
    [][/\ Len(log') >= Len(log)
       /\ SubSeq(log', 1, Len(log)) = log]_vars

\* A no-transaction script was applied and rolled back, and a later call
\* failed: the log holds its UP row followed by its DOWN row.
C25_Witness ==
    /\ \E i, j \in 1..Len(log) :
          /\ i < j /\ log[i].mid = log[j].mid
          /\ log[i].action = "UP" /\ log[j].action = "DOWN"
          /\ corpus[log[i].mid].noTx
    /\ \E p \in Procs : pc[p] = "closing" /\ err[p] # "none"

\* C26: a step of the engine changes a committed _migrations row only from
\* absent to 'applied' (successful up), from 'applied' to absent (successful
\* down) or from absent to 'failed' (failed no-transaction up): it never
\* modifies or deletes a 'failed' row, never turns an 'applied' row into
\* 'failed' and never turns a 'failed' row into 'applied'.
C26_RowTransitions ==
    [][\A m \in Ids :
          mig'[m] # mig[m] =>
              \/ mig[m].status = "absent" /\ mig'[m].status \in {"applied", "failed"}
              \/ mig[m].status = "applied" /\ mig'[m].status = "absent"]_vars

\* One script's row is 'failed' and the other script was applied and rolled
\* back while it was: the failed row stayed as the failing apply() wrote it.
C26_Witness ==
    \E m, k \in Ids :
        /\ mig[m].status = "failed" /\ mig[k].status = "absent"
        /\ Count(k, "UP") = 1 /\ Count(k, "DOWN") = 1

\* A rollback() has ended at a no-transaction script whose down SQL has a
\* failing statement: the script is still the head of the loop.
DownFailedAt(p, m) ==
    /\ pc[p] = "closing" /\ op[p].kind = "rollback" /\ ~op[p].dry
    /\ todo[p] # <<>> /\ m = Head(todo[p])
    /\ m \in present /\ corpus[m].noTx /\ corpus[m].downFail # 0

LoggedSince(p, m, action) ==
    \E i \in (pre[p].loglen + 1)..Len(log) : log[i].mid = m /\ log[i].action = action

\* to_rollback of a rollback() that has ended: what it selected when it
\* took the lock.
Selected(p) == Slice(AppliedDetails(pre[p].mig), op[p].n)

\* C29: when the newest migration selected by rollback() is a
\* no-transaction script whose down SQL has a failing statement, the call
\* ends with the error; the statements before the failing one have taken
\* effect and stay committed, the failing statement and those after it have
\* dropped nothing, and the migrations selected after the script keep their
\* rows and their schema effects and get no DOWN row.
C29_NoTransactionDownAborts ==
    \A p \in Procs : \A m \in Ids :
        (/\ pc[p] = "closing" /\ op[p].kind = "rollback" /\ ~op[p].dry
         /\ Selected(p) # <<>> /\ m = Head(Selected(p))
         /\ m \in present /\ corpus[m].noTx /\ corpus[m].downFail # 0) =>
            /\ err[p] = "sql"
            /\ schema \cap Effects(m)
                 = {e \in pre[p].schema \cap Effects(m) : e[2] >= corpus[m].downFail}
            /\ \A k \in SeqToSet(Tail(Selected(p))) :
                  /\ mig[k] = pre[p].mig[k]
                  /\ schema \cap Effects(k) = pre[p].schema \cap Effects(k)
                  /\ ~LoggedSince(p, k, "DOWN")

\* The second down statement of the newest script failed after the first
\* had dropped its object, and an older migration was selected too.
C29_Witness ==
    \E m \in Ids :
        /\ DownFailedAt(1, m) /\ corpus[m].downFail = 2
        /\ <<m, 1>> \in pre[1].schema /\ <<m, 1>> \notin schema
        /\ <<m, 2>> \in schema
        /\ Tail(todo[1]) # <<>>
        /\ mig[Head(Tail(todo[1]))].status = "applied"

\* C30 (as claimed): when a no-transaction down fails after some of its
\* statements succeeded, the rollback path still deletes the script's
\* _migrations row.
C30_FailedDownDeletesRow ==
    \A p \in Procs : \A m \in Ids :
        (DownFailedAt(p, m) /\ corpus[m].downFail > 1) => mig[m].status = "absent"

\* C30 (amended): when a no-transaction down fails after some of its
\* statements succeeded, the rollback path leaves the script's _migrations
\* row as it was, 'applied', and appends no DOWN row for it, although the
\* objects of the statements that succeeded are gone.
C30_FailedDownKeepsRow ==
    \A p \in Procs : \A m \in Ids :
        (DownFailedAt(p, m) /\ corpus[m].downFail > 1) =>
            /\ mig[m] = pre[p].mig[m]
            /\ mig[m].status = "applied"
            /\ ~LoggedSince(p, m, "DOWN")
            /\ \A j \in 1..(corpus[m].downFail - 1) : <<m, j>> \notin schema

\* rollback(steps=1) of a no-transaction script failed at its second down
\* statement: the first object is gone and the row still says 'applied'.
C30_Witness ==
    \E m \in Ids :
        /\ DownFailedAt(1, m) /\ corpus[m].downFail = 2 /\ op[1].n = 1
        /\ err[1] = "sql"
        /\ <<m, 1>> \in pre[1].schema /\ <<m, 1>> \notin schema
        /\ mig[m].status = "applied"

\* A transactional script with complete up and down sections.
Transactional(m) ==
    ~corpus[m].noTx /\ corpus[m].upLen = MaxStmts /\ corpus[m].downLen = MaxStmts

\* C27: when a process's session ends while it holds the advisory lock, the
\* lock is free for the other process (only a process inside its with block
\* holds it) and every change of the transactional script in progress is
\* discarded: in the committed database a transactional script has its
\* 'applied' row and its schema effects, or neither.  A later apply() of
\* another process that returns without error, in a corpus of transactional
\* scripts, has committed the row and the effects of every script it
\* processed.
C27_SessionLossIsClean ==
    /\ [](\A p \in Procs : lockHolder = p => Holding(p))
    /\ [](\A m \in Ids :
            Transactional(m) =>
                \/ mig[m].status = "applied" /\ Effects(m) \subseteq schema
                \/ mig[m].status = "absent" /\ Effects(m) \cap schema = {})
    /\ [][\A q \in Procs :
            (/\ pc[q] = "commit" /\ pc'[q] = "closing"
             /\ op[q].kind = "apply" /\ ~op[q].dry /\ err[q] = "none"
             /\ \A m \in Ids : ~corpus[m].noTx) =>
                \A m \in SeqToSet(done[q]) :
                    mig'[m].status = "applied" /\ UpEffects(m) \subseteq schema']_vars

\* Process 1 lost its session with the row and the effects of transactional
\* script 1 uncommitted; process 2 then applied the script.
C27_Witness ==
    /\ <<1, "applied">> \in lost /\ Transactional(1) /\ pc[1] = "idle" /\ nops = MaxOps
    /\ Returned(2, "apply") /\ err[2] = "none" /\ 1 \in SeqToSet(done[2])
    /\ mig[1].status = "applied" /\ Effects(1) \subseteq schema

\* C28 (as claimed): a call of apply() or rollback() runs its pre hook
\* before it asks for the advisory lock and runs nothing else until the lock
\* is released; a call that ends without error has run its pre hook and
\* then its post hook, also when nothing was pending or applied; a hook
\* that exits non-zero makes the call fail.
C28_HooksAroundTheLock ==
    \A p \in Procs :
        /\ (pc[p] = "lock" \/ Holding(p)) =>
               hooks[p] = <<Hook("pre", op[p].kind, TRUE)>>
        /\ (\E i \in 1..Len(hooks[p]) : hooks[p][i].name = HookName("post", op[p].kind)) =>
               lockHolder # p
        /\ (pc[p] = "closing" /\ op[p].kind \in {"apply", "rollback"} /\ err[p] = "none") =>
               hooks[p] = <<Hook("pre", op[p].kind, TRUE), Hook("post", op[p].kind, TRUE)>>
        /\ (\E i \in 1..Len(hooks[p]) : ~hooks[p][i].ok) => err[p] = "hook"

C24_ExclusiveCreateNeverReplaces ==
    /\ [][\A n \in NewIds : dest[n] # NoFile => dest'[n] = dest[n]]_vars
    /\ [](\A n \in NewIds :
            Cardinality({p \in Procs : aw[p].pc = "done" /\ aw[p].path = n}) <= 1)
    /\ [](\A p \in Procs : aw[p].pc = "done" => dest[aw[p].path] = aw[p].content)

\* C31 (as claimed): cmd_squash reads _migrations only while no engine
\* process is between its pg_advisory_lock and its pg_advisory_unlock, and
\* the pending list it works on holds no script that a concurrent apply()
\* is applying or has applied.
C31_SquashReadsUnderLock ==
    /\ [][(sq.pc = "idle" /\ sq'.pc # "idle") => \A p \in Procs : ~Holding(p)]_vars
    /\ [](sq.pc = "parse" =>
             \A m \in SeqToSet(sq.pending) \cap Ids :
                 /\ mig[m].status # "applied"
                 /\ \A p \in Procs : wMig[p][m].status = "untouched")

\* C32 (as claimed): when a script fails in apply(), the scripts the call
\* applied before it have ascending ids below the failing one and are
\* committed as applied, each with its schema effect and an UP row; the
\* failing script has no row if it is transactional and a 'failed' row if
\* it is a no-transaction script; the pending scripts after it have been
\* neither executed nor recorded.
C32_ApplyStopsAtFirstFailure ==
    \A p \in Procs :
        (Returned(p, "apply") /\ err[p] = "sql") =>
            LET m == Head(todo[p]) IN
            /\ \A i, j \in 1..Len(done[p]) : i < j => done[p][i] < done[p][j]
            /\ \A k \in SeqToSet(done[p]) :
                  /\ k < m
                  /\ mig[k].status = "applied"
                  /\ UpEffects(k) \subseteq schema
                  /\ LoggedSince(p, k, "UP")
            /\ mig[m].status = (IF corpus[m].noTx THEN "failed" ELSE "absent")
            /\ \A k \in SeqToSet(Tail(todo[p])) :
                  /\ m < k
                  /\ mig[k] = pre[p].mig[k]
                  /\ schema \cap Effects(k) = pre[p].schema \cap Effects(k)
                  /\ ~LoggedSince(p, k, "UP")

\* C33 (as claimed): the list apply() computes when it has read the applied
\* set holds, in ascending order, exactly the ids with a script file and no
\* 'applied' row (cut to the limit), and every id in it sorts after every
\* applied id, so that apply() never executes a script whose id sorts
\* before an applied one.
C33_PendingIsTheTail ==
    [][\A p \in Procs :
          (pc[p] = "read" /\ pc'[p] = "loop") =>
              /\ \E n \in 0..Len(Pending(p)) : todo'[p] = SubSeq(Pending(p), 1, n)
              /\ SeqToSet(Pending(p)) = present \ AppliedIds(View(p))
              /\ \A i, j \in 1..Len(Pending(p)) : i < j => Pending(p)[i] < Pending(p)[j]
              /\ \A m \in SeqToSet(todo'[p]) : \A k \in AppliedIds(View(p)) : k < m]_vars

\* The pending list of a call that has ended, as it was when the call took
\* the lock.
PendingBefore(p) == SeqFilter(get_migration_files, Ids \ AppliedIds(pre[p].mig))

Min(a, b) == IF a < b THEN a ELSE b

\* C34 (as claimed): an apply(limit=k) with k >= 0 that returns without
\* error has processed exactly the first min(k, number pending) pending
\* scripts, in ascending order, and the other pending scripts have no row,
\* no schema effect and no UP row.
C34_LimitTruncatesPending ==
    \A p \in Procs :
        (Returned(p, "apply") /\ err[p] = "none" /\ op[p].n >= 0) =>
            LET k == Min(op[p].n, Len(PendingBefore(p))) IN
            /\ done[p] = SubSeq(PendingBefore(p), 1, k)
            /\ \A i \in (k + 1)..Len(PendingBefore(p)) :
                  LET m == PendingBefore(p)[i] IN
                  /\ mig[m].status = "absent"
                  /\ schema \cap Effects(m) = pre[p].schema \cap Effects(m)
                  /\ ~LoggedSince(p, m, "UP")

RECURSIVE EffectsOf(_)
EffectsOf(s) == IF s = <<>> THEN {} ELSE Effects(Head(s)) \cup EffectsOf(Tail(s))

\* C35: run_seeds takes the seed files in ascending order of their names;
\* whenever it is between two files or has ended, the effect of every file
\* it has completed is committed, its connection holds nothing uncommitted
\* and nothing of a file whose SQL fails is in the database; it ends without error only with every file
\* completed, and with an error only at a file whose SQL fails, of which
\* nothing is committed, with the files after it not run.
C35_SeedsCommitPerFile ==
    \A p \in Procs :
        (op[p].kind = "seed" /\ pc[p] \in {"seed", "closing"}) =>
            /\ done[p] \o todo[p] = get_seed_files
            /\ \A i, j \in 1..Len(get_seed_files) : i < j => get_seed_files[i] < get_seed_files[j]
            /\ EffectsOf(done[p]) \subseteq schema
            /\ schema \subseteq EffectsOf(SeqFilter(get_seed_files, {s \in SeedIds : seeds[s] = 0}))
            /\ wAdd[p] = {} /\ ~inTx[p]
            /\ \A s \in SeqToSet(done[p]) : seeds[s] = 0
            /\ (pc[p] = "closing" /\ err[p] = "none") => todo[p] = <<>>
            /\ (pc[p] = "closing" /\ err[p] # "none") =>
                  /\ err[p] = "sql" /\ todo[p] # <<>>
                  /\ seeds[Head(todo[p])] # 0
                  /\ \A s \in SeqToSet(todo[p]) : schema \cap Effects(s) = {}

\* The second of three seed files failed at its last statement: the first
\* is committed, the third was not run.
C35_Witness ==
    /\ op[1].kind = "seed" /\ pc[1] = "closing" /\ err[1] = "sql"
    /\ done[1] = <<5>> /\ todo[1] = <<6, 7>>
    /\ seeds[6] = MaxStmts /\ seeds[7] = 0
    /\ Effects(5) \subseteq schema

\* C36: when the body of an atomic_write raises, that step leaves every
\* destination as it is and removes the temp file, and the call ends
\* without a temp file; a destination changes only in the os.replace of a
\* call whose body completed, which puts the complete new text there, so a
\* destination holds its previous text or a complete new one at all times.
C36_FailedWriteLeavesTarget ==
    /\ [][\A p \in Procs :
             (aw[p].pc = "body" /\ aw'[p].pc = "raised") =>
                 (dest' = dest /\ aw'[p].tmp = NoFile)]_vars
    /\ [][dest' # dest =>
             \E p \in Procs :
                 /\ aw[p].pc = "replace" /\ aw'[p].pc = "done"
                 /\ aw[p].tmp = aw[p].content
                 /\ dest' = [dest EXCEPT ![aw[p].path] = aw[p].content]]_vars
    /\ [](\A p \in Procs : aw[p].pc = "raised" => aw[p].tmp = NoFile)
    /\ [](\A n \in NewIds : dest[n] \in {NoFile, OldText} \cup {WriterText(p) : p \in Procs})

\* The body of a write over an existing file raised: the file has its old
\* text and there is no temp file.
C36_Witness ==
    /\ aw[1].pc = "raised" /\ ~aw[1].exclusive
    /\ dest[aw[1].path] = OldText
    /\ aw[1].tmp = NoFile

\* C37 (as claimed): when an apply() or rollback() call returns, with or
\* without error, every transactional script it reported as applied has
\* its row, its schema effect and its UP row committed, and every
\* transactional script it reported as rolled back has no row, none of the
\* effects its down SQL drops, and a DOWN row: the conn.rollback() ahead of
\* a no-transaction script has discarded none of them.
C37_RollbackToIdleKeepsEarlierWork ==
    \A p \in Procs : \A k \in SeqToSet(done[p]) :
        ~corpus[k].noTx =>
            /\ Returned(p, "apply") =>
                  /\ mig[k].status = "applied"
                  /\ UpEffects(k) \subseteq schema
                  /\ LoggedSince(p, k, "UP")
            /\ Returned(p, "rollback") =>
                  /\ mig[k].status = "absent"
                  /\ schema \cap DownEffects(k) = {}
                  /\ LoggedSince(p, k, "DOWN")

\* C38 (as claimed): in every committed state, each migration id has one
\* UP row more than DOWN rows in _migrations_log when its _migrations row
\* is 'applied', and as many UP rows as DOWN rows otherwise.
C38_LogBalancesLedger ==
    \A m \in Ids :
        Count(m, "UP") - Count(m, "DOWN") = (IF mig[m].status = "applied" THEN 1 ELSE 0)

\* C39 (as claimed): on a corpus of transactional scripts, when an
\* apply(dry_run=true) and an apply(dry_run=false) with the same limit have
\* started from the same committed state, the script at which the dry run
\* has raised an SQL error is not one that the real run has applied; so
\* the dry run does not fail at a pending script that uses an object an
\* earlier pending script creates.
C39_DryRunFailsOnlyIfApplyFails ==
    \A p, q \in Procs :
        (/\ \A m \in Ids : ~corpus[m].noTx
         /\ pc[p] = "closing" /\ op[p].kind = "apply" /\ op[p].dry
         /\ pc[q] = "closing" /\ op[q].kind = "apply" /\ ~op[q].dry
         /\ op[p].n = op[q].n /\ pre[p] = pre[q]
         /\ err[p] = "sql") =>
            Head(todo[p]) \notin SeqToSet(done[q])

\* C40 (as claimed): a rollback(steps) that has ended has removed at most
\* steps applied rows; with steps <= 0 it has left _migrations, the schema
\* and _migrations_log as they were; with steps above the number of applied
\* rows, and no error, it has removed every applied row.
C40_RollbackRemovesAtMostSteps ==
    \A p \in Procs :
        Returned(p, "rollback") =>
            LET removed == AppliedIds(pre[p].mig) \ AppliedIds(mig) IN
            /\ Cardinality(removed) <= (IF op[p].n > 0 THEN op[p].n ELSE 0)
            /\ op[p].n <= 0 =>
                  /\ mig = pre[p].mig
                  /\ schema = pre[p].schema
                  /\ Len(log) = pre[p].loglen
            /\ (op[p].n > Cardinality(AppliedIds(pre[p].mig)) /\ err[p] = "none") =>
                  removed = AppliedIds(pre[p].mig)

====
